---- MODULE Spec2Model ----
(***************************************************************************)
(* Model of the transaction-submission logic of the farm hooks             *)
(* (src/src/hooks/useStake.ts, src/src/hooks/useHarvest.ts) and of the     *)
(* approval-then-action flows (src/src/hooks/useApproval.ts,               *)
(* src/src/components/LiquidityCard.tsx).                                  *)
(*                                                                         *)
(* Amount strings are tuples of one-character strings, bigints are tuples  *)
(* of decimal digits (most significant first, no leading zero), so that    *)
(* parseFloat and parseUnits are computed, not assumed; error messages are *)
(* tuples of words.                                                        *)
(***************************************************************************)
EXTENDS Integers, Sequences, FiniteSets, TLC

\* ------------------------------------------------------------------------
\* Bounds of the model
\* ------------------------------------------------------------------------

\* largest value of the `retries` argument that is explored
MaxRetries == 3

\* number of hook calls explored in one behaviour
MaxCalls == 2

\* largest pending transaction count the RPC node answers with
MaxNonce == 1

\* longest delay of one receipt lookup on a fast node, in polling intervals
MaxSlowPolls == 1

\* delay of one receipt lookup on a slow node, in polling intervals
SlowLookupPolls == 29

\* ------------------------------------------------------------------------
\* Values
\* ------------------------------------------------------------------------

\* JavaScript null / undefined, for each type of value
None   == "none"
NoBig  == <<>>
NoMsg  == <<"<null>">>
NoHash == <<>>
NoNum  == -1

DigitChars == {"0", "1", "2", "3", "4", "5", "6", "7", "8", "9"}

DigitVal(c) ==
    CASE c = "0" -> 0 [] c = "1" -> 1 [] c = "2" -> 2 [] c = "3" -> 3
      [] c = "4" -> 4 [] c = "5" -> 5 [] c = "6" -> 6 [] c = "7" -> 7
      [] c = "8" -> 8 [] c = "9" -> 9

\* number of leading characters of s that are decimal digits
RECURSIVE DigitPrefixLen(_)
DigitPrefixLen(s) ==
    IF s = <<>> \/ Head(s) \notin DigitChars THEN 0
    ELSE 1 + DigitPrefixLen(Tail(s))

Drop(s, n) == SubSeq(s, n + 1, Len(s))
Take(s, n) == SubSeq(s, 1, n)

\* a tuple of n zeros
Zeros(n) == [i \in 1..n |-> 0]

\* bigint: drop leading zeros, zero is <<0>>
RECURSIVE Canon(_)
Canon(d) ==
    IF d = <<>> THEN <<0>>
    ELSE IF Head(d) = 0 /\ Len(d) > 1 THEN Canon(Tail(d))
    ELSE d

\* lexicographic order on digit tuples of the same length
RECURSIVE LexLess(_, _)
LexLess(a, b) ==
    IF a = <<>> THEN FALSE
    ELSE IF Head(a) # Head(b) THEN Head(a) < Head(b)
    ELSE LexLess(Tail(a), Tail(b))

\* a < b on non-negative bigints
BigLess(a, b) ==
    \/ Len(a) < Len(b)
    \/ Len(a) = Len(b) /\ LexLess(a, b)

BigZero == <<0>>

\* JavaScript truthiness of a bigint-or-undefined value (0n and undefined are falsy)
Truthy(v) == v # NoBig /\ v # BigZero

\* ------------------------------------------------------------------------
\* parseFloat and viem's parseUnits on amount strings
\* ------------------------------------------------------------------------

\* sign class of parseFloat(s): "nan", "neg", "zero" or "pos"
ParseFloat(s) ==
    LET signed == s # <<>> /\ Head(s) \in {"-", "+"}
        body   == IF signed THEN Tail(s) ELSE s
        il     == DigitPrefixLen(body)
        rest   == Drop(body, il)
        fl     == IF rest # <<>> /\ Head(rest) = "." THEN DigitPrefixLen(Tail(rest)) ELSE 0
        mant   == Take(body, il) \o (IF fl > 0 THEN Take(Tail(rest), fl) ELSE <<>>)
    IN  IF mant = <<>> THEN "nan"
        ELSE IF \A i \in 1..Len(mant) : mant[i] = "0" THEN "zero"
        ELSE IF signed /\ Head(s) = "-" THEN "neg"
        ELSE "pos"

\* drop trailing "0" characters
RECURSIVE TrimZeros(_)
TrimZeros(s) ==
    IF s # <<>> /\ s[Len(s)] = "0" THEN TrimZeros(Take(s, Len(s) - 1)) ELSE s

\* parseUnits(s, decimals): ok = FALSE when it throws, otherwise the sign and
\* the magnitude of the bigint.  Defined for fractions of at most `decimals`
\* digits; the amount strings explored below stay inside that domain.
ParseUnits(s, decimals) ==
    LET neg   == s # <<>> /\ Head(s) = "-"
        body  == IF neg THEN Tail(s) ELSE s
        il    == DigitPrefixLen(body)
        rest  == Drop(body, il)
        dot   == rest # <<>> /\ Head(rest) = "."
        fracS == IF dot THEN Tail(rest) ELSE <<>>
        fl    == DigitPrefixLen(fracS)
        valid == IF dot THEN fl = Len(fracS) ELSE rest = <<>>
        frac0 == IF dot THEN fracS ELSE <<"0">>
        frac  == TrimZeros(frac0)
        digs  == [i \in 1..il |-> DigitVal(body[i])]
                   \o [i \in 1..Len(frac) |-> DigitVal(frac[i])]
                   \o Zeros(decimals - Len(frac))
    IN  IF valid /\ Len(TrimZeros(frac0)) <= decimals
        THEN [ok |-> TRUE, neg |-> neg /\ Canon(digs) # BigZero, mag |-> Canon(digs)]
        ELSE [ok |-> FALSE, neg |-> FALSE, mag |-> BigZero]

\* token decimals used by the farm hooks
Decimals == 18

\* parseUnits of a plain digit string, for writing constants
Units(s) == ParseUnits(s, Decimals).mag

\* 2^256 - 1
MaxUint256 ==
    <<1,1,5,7,9,2,0,8,9,2,3,7,3,1,6,1,9,5,4,2,3,5,7,0,9,8,5,0,0,8,6,8,7,9,0,7,8,5,3,2,6,9,
      9,8,4,6,6,5,6,4,0,5,6,4,0,3,9,4,5,7,5,8,4,0,0,7,9,1,3,1,2,9,6,3,9,9,3,5>>

\* ------------------------------------------------------------------------
\* Error messages (tuples of words); String.includes is word membership
\* ------------------------------------------------------------------------

Includes(msg, w) == \E i \in 1..Len(msg) : msg[i] = w

\* IsRetryable that also retries on a rejected request
IsRetryableAlsoRejected(msg) ==
    Includes(msg, "dropped") \/ Includes(msg, "replaced") \/ Includes(msg, "nonce")
        \/ Includes(msg, "rejected")

IsRetryable(msg) ==
    Includes(msg, "dropped") \/ Includes(msg, "replaced") \/ Includes(msg, "nonce")

\* error?.shortMessage || error?.message || fallback
ErrMsg(err, fallback) ==
    IF err.shortMessage # <<>> THEN err.shortMessage
    ELSE IF err.message # <<>> THEN err.message
    ELSE fallback

MsgNotConnected  == <<"Wallet", "not", "connected">>
MsgInvalidAmount == <<"Invalid", "amount">>
MsgPoolFailed    == <<"Pool", "verification", "failed">>
MsgInsufficient  == <<"Insufficient", "LP", "balance">>
MsgPleaseApprove == <<"Please", "approve", "LP", "tokens", "first">>
MsgNotInTime     == <<"Transaction", "not", "confirmed", "in", "time">>
MsgApprovalNotConfirmed == <<"Approval", "not", "confirmed">>
MsgEmergencyNotConfirmed == <<"Emergency", "withdraw", "not", "confirmed">>

\* the fallback message of each operation's catch block
DefaultMsg(op) ==
    CASE op = "stake"             -> <<"Stake", "failed">>
      [] op = "unstake"           -> <<"Unstake", "failed">>
      [] op = "harvest"           -> <<"Harvest", "failed">>
      [] op = "approve"           -> <<"Approval", "failed">>
      [] op = "emergencyWithdraw" -> <<"Emergency", "withdraw", "failed">>

\* errors an awaited RPC or wallet call may throw
Errors ==
    { [shortMessage |-> <<"nonce", "too", "low">>, message |-> <<"nonce", "too", "low", "details">>],
      [shortMessage |-> <<"User", "rejected">>,    message |-> <<"User", "rejected", "request", "nonce">>],
      [shortMessage |-> <<>>,                      message |-> <<"transaction", "dropped">>],
      [shortMessage |-> <<>>,                      message |-> <<"transaction", "replaced">>],
      [shortMessage |-> <<>>,                      message |-> <<"insufficient", "funds">>],
      [shortMessage |-> <<>>,                      message |-> <<>>] }

\* amount strings the caller may pass: "", "0", "1", "2", "-1", "1e3"
Amounts ==
    { <<>>, <<"0">>, <<"1">>, <<"2">>, <<"-", "1">>, <<"1", "e", "3">> }

\* the well-formed positive ones
PlainAmounts == { <<"1">> }

\* values the allowance and LP-balance reads may hold
AllowanceValues == { NoBig, BigZero, Units(<<"1">>), MaxUint256 }
BalanceValues   == { NoBig, BigZero, Units(<<"1">>) }

\* ------------------------------------------------------------------------
\* Program constants
\* ------------------------------------------------------------------------

DefaultRetries   == 3
InitialBackoffMs == 3000
PollMs           == 2000
DefaultTimeoutMs == 120000
StakeTimeoutMs   == 180000
ApproveExtraWaitMs == 3000
StakeGasDefault   == 500000
HarvestGasDefault == 300000
StakeGasBufferPct   == 180
HarvestGasBufferPct == 150
GasPricePremiumPct  == 130

\* gas estimates and gas prices the RPC node answers with
GasEstimates == { 33333 }
GasPrices    == { 7 }

RetryOps  == {"stake", "unstake", "harvest"}
SingleOps == {"approve", "emergencyWithdraw"}
StakeHookOps   == {"stake", "unstake", "approve"}
HarvestHookOps == {"harvest", "emergencyWithdraw"}

\* timeout passed to waitForTx by each operation
TimeoutOf(op) == IF op \in {"stake", "unstake"} THEN StakeTimeoutMs ELSE DefaultTimeoutMs

\* ------------------------------------------------------------------------
\* State
\* ------------------------------------------------------------------------

VARIABLES
    env,    \* the environment of the behaviour: which hook is mounted and how
            \* the node and the contract reads behave
    hook,   \* the React state of one hook instance (useStake or useHarvest)
    call,   \* the frame of the hook call in progress: arguments, locals, position
    hist,   \* history of the current call, kept for stating the properties
    flow,   \* one approval-then-action flow of a hook or a modal (see below)
    pool,   \* the add-liquidity modal with its usePoolRatio instance (see below)
    liq,    \* one call of useAddLiquidity / useRemoveLiquidity (see below)
    modal,  \* one StakeModal with the calls of its useStake hook in progress
    adding  \* the approve / add steps of one AddLiquidityModal (see below)

vars == <<env, hook, call, hist, flow, pool, liq, modal, adding>>

IdleCall ==
    [ op |-> None, pc |-> "idle", amount |-> <<>>, amountWei |-> NoBig,
      retries |-> 0, attempt |-> 0, backoffMs |-> 0, lastError |-> <<>>,
      nonce |-> NoNum, gas |-> NoNum, gasPrice |-> NoNum, hash |-> NoHash,
      elapsed |-> 0, cAllowance |-> NoBig, cLpBalance |-> NoBig, cPoolError |-> NoMsg ]

NoResult == [kind |-> "none", success |-> FALSE, hash |-> NoHash, error |-> NoMsg]
Failure(msg) == [kind |-> "returned", success |-> FALSE, hash |-> NoHash, error |-> msg]
Success(h)   == [kind |-> "returned", success |-> TRUE, hash |-> h, error |-> NoMsg]
\* the promise of the call rejects instead of resolving to a TxResult
Rejected     == [kind |-> "rejected", success |-> FALSE, hash |-> NoHash, error |-> NoMsg]

NoTx   == [fn |-> None, amountWei |-> NoBig, nonce |-> NoNum, gas |-> NoNum, gasPrice |-> NoNum,
           hash |-> NoHash, pendingRead |-> NoNum, readAt |-> NoHash,
           estimate |-> NoNum, priceRead |-> NoNum, priceAt |-> NoHash]
NoWait == [hash |-> NoHash, confirmed |-> FALSE, receipt |-> None, issuedAt |-> 0, endedAt |-> 0]

\* what stake was called with: the amount string and the reads its callback holds
\* and whether the pool verification has passed for this call so far
NoStart == [amount |-> <<>>, allowance |-> NoBig, lpBalance |-> NoBig, connected |-> FALSE,
            poolVerified |-> FALSE, verified |-> FALSE]

\* hist at the start of call number n.  calls, op, retries, result, sent (the
\* number of writeContract calls), events (0 for the start of an attempt, the
\* milliseconds of each backoff wait), confirmed (the hash for which a
\* 'success' receipt was obtained) and start describe the call as a whole;
\* estimate, priceRead and priceAt the gas estimate and the gas price the node
\* answered with in the attempt in progress; pendingRead and readAt the last nonce
\* read of the attempt in progress; lastTx, lastWait, lastLookup and thrown
\* describe what the last step did and are cleared by the next step.  chain is
\* kept in a "late" environment (see the chain section): the transactions the
\* call has handed to the wallet, each with its nonce and what became of it
\* on chain ("pending", "success" or "reverted").
NewHist(n) ==
    [ calls |-> n, op |-> None, retries |-> 0, result |-> NoResult, sent |-> 0, events |-> <<>>,
      confirmed |-> NoHash, start |-> NoStart,
      pendingRead |-> NoNum, readAt |-> NoHash,
      estimate |-> NoNum, priceRead |-> NoNum, priceAt |-> NoHash,
      lastTx |-> NoTx, lastWait |-> NoWait,
      lastLookup |-> None, thrown |-> NoMsg, chain |-> {} ]

\* no approval flow is followed
NoFlow ==
    [ name |-> None, decimals |-> 0, token |-> "erc20", amount |-> <<>>, lp |-> NoBig,
      percentage |-> 0, allowance |-> NoBig, chain |-> NoBig, step |-> "input",
      approveArg |-> NoBig ]

\* reserves === null
NoReserves == [token0 |-> <<>>, token1 |-> <<>>, reserve0 |-> <<>>, reserve1 |-> <<>>]

\* the add-liquidity modal before it is mounted
NoPool ==
    [ tokenA |-> None, tokenB |-> None, reserves |-> NoReserves,
      isTokenAFirst |-> TRUE, loading |-> FALSE, fetches |-> {},
      amountA |-> <<>>, amountB |-> <<>>, isLocked |-> TRUE, lastChanged |-> None,
      autoWrote |-> None, writes |-> 0 ]

\* no call to the router: fn is the router function, tokens its address
\* arguments and amounts its amount arguments in the order of the call, value
\* the native amount sent along, gas the gas limit
NoRouterCall == [fn |-> None, tokens |-> <<>>, amounts |-> <<>>, value |-> NoBig, gas |-> NoNum]

\* no liquidity call is followed.  The fields up to slippage are the hook's
\* arguments and the arguments of the call; estimate is the call handed to
\* estimateContractGas, tx the one handed to writeContract.
NoLiq ==
    [ op |-> None, pc |-> "idle", connected |-> FALSE, slippage |-> 0,
      tokenA |-> None, tokenB |-> None, amountA |-> <<>>, amountB |-> <<>>,
      lpAmount |-> NoBig, token0 |-> <<>>, token1 |-> <<>>,
      minAmount0 |-> NoBig, minAmount1 |-> NoBig, hasWMON |-> FALSE,
      estimate |-> NoRouterCall, tx |-> NoRouterCall, thrown |-> NoMsg ]

\* no StakeModal is mounted.  calls holds the useStake calls in progress, in
\* the order they were started, each with the frame of a call (as in call);
\* clicks counts the clicks on the submit button.
NoModal == [mode |-> None, amount |-> <<>>, calls |-> <<>>, clicks |-> 0]

\* no AddLiquidityModal is followed.  tx and status describe the state of the
\* modal's useWriteContract / useWaitForTransactionReceipt pair: which call
\* was handed to writeContract last (None after reset()) and how far it got;
\* estimating tells that addLiquidity awaits its gas estimate; timers holds
\* the delayed callbacks of the success effect that have not fired, each
\* named by the step it was scheduled for; chainA and chainB are the
\* allowances on chain.  completed (onSuccess and onClose were called),
\* addConfirmed (an addLiquidity transaction has a receipt) and addReset (a
\* delayed callback of an approval reset the modal while an addLiquidity
\* submission was under way) are kept for stating the properties.
NoAdding ==
    [ step |-> None, tokenA |-> None, tokenB |-> None, amountA |-> <<>>, amountB |-> <<>>,
      allowA |-> NoBig, allowB |-> NoBig, chainA |-> NoBig, chainB |-> NoBig,
      tx |-> None, status |-> "idle", estimating |-> FALSE, timers |-> {},
      completed |-> FALSE, addConfirmed |-> FALSE, addReset |-> FALSE ]

\* nothing has been read by verifyPool.  poolSeen is kept in a "verifying"
\* environment (see the pool-verification section): the answers the last run
\* of verifyPool obtained from the MasterChef.
NoSeen == [poolLength |-> NoNum, lpToken |-> None, allocPoint |-> NoNum, threw |-> FALSE]

HookInit(kind) ==
    [ kind |-> kind, isProcessing |-> FALSE, isApproving |-> FALSE, txHash |-> NoHash,
      txError |-> NoMsg, isSuccess |-> FALSE, poolVerified |-> FALSE, poolError |-> NoMsg,
      allowance |-> NoBig, lpBalance |-> NoBig, poolSeen |-> NoSeen ]

\* Environments.  In a "steady" one the node answers receipt lookups within
\* MaxSlowPolls polling intervals, the pool is already verified and the
\* allowance and balance reads keep their values; in a "changing" one each
\* lookup takes SlowLookupPolls intervals, the pool is verified on demand, the
\* reads start from any value and deliver new values while a call verifies
\* the pool; one call is followed there.
Envs ==
    { [kind |-> k, reads |-> r] : k \in {"useStake", "useHarvest"}, r \in {"steady", "changing"} }
      \ { [kind |-> "useHarvest", reads |-> "changing"] }

Init ==
    /\ env \in Envs
    /\ IF env.reads = "steady"
       THEN hook = [HookInit(env.kind) EXCEPT !.poolVerified = (env.kind = "useStake"),
                                              !.allowance = IF env.kind = "useStake"
                                                            THEN MaxUint256 ELSE NoBig]
       ELSE \E a \in AllowanceValues, b \in BalanceValues :
                hook = [HookInit(env.kind) EXCEPT !.allowance = a, !.lpBalance = b]
    /\ call = IdleCall
    /\ hist = NewHist(0)
    /\ flow = NoFlow
    /\ pool = NoPool
    /\ liq = NoLiq
    /\ modal = NoModal
    /\ adding = NoAdding

\* the current state, with the record of the previous step cleared
Cur ==
    [hook |-> hook, call |-> call,
     hist |-> [hist EXCEPT !.lastTx = NoTx, !.lastWait = NoWait, !.lastLookup = None,
                           !.thrown = NoMsg]]

Apply(s) == /\ hook' = s.hook
            /\ call' = s.call
            /\ hist' = s.hist
            /\ env' = env
            /\ flow' = flow
            /\ pool' = pool
            /\ liq' = liq
            /\ modal' = modal
            /\ adding' = adding

\* inputs of the environment
LookupPolls == IF env.reads = "steady" THEN 0..MaxSlowPolls ELSE {SlowLookupPolls}
AmountsTried == IF env.reads = "steady" THEN PlainAmounts ELSE Amounts
CallsTried == IF env.reads = "steady" THEN MaxCalls ELSE 1
RetriesTried == IF env.reads = "steady" THEN (-1)..MaxRetries ELSE {DefaultRetries}
CallbacksTried == IF env.reads = "steady" THEN {TRUE} ELSE BOOLEAN

\* ------------------------------------------------------------------------
\* Synchronous segments of the handlers, as functions on the state
\* ------------------------------------------------------------------------

\* `return res`
Ret(s, res) == [s EXCEPT !.call = IdleCall, !.hist.result = res]

\* the first statements of a call that passed its connection check
Begin(s, op, amount, retries) ==
    [s EXCEPT !.call = [IdleCall EXCEPT !.op = op, !.amount = amount, !.retries = retries,
                                        !.backoffMs = 0],
              !.hist = [NewHist(s.hist.calls + 1) EXCEPT !.op = op, !.retries = retries]]

\* setTxError(lastError); setIsProcessing(false); return { success: false, error: lastError }
FailReturn(s) ==
    Ret([s EXCEPT !.hook.txError = s.call.lastError, !.hook.isProcessing = FALSE],
        Failure(s.call.lastError))

\* the block-scoped constants of an attempt (nonce, gas, gasPrice, hash, the
\* start time of waitForTx) go out of scope when the try block is left
EndAttempt(s) ==
    [s EXCEPT !.call.nonce = NoNum, !.call.gas = NoNum, !.call.gasPrice = NoNum,
              !.call.hash = NoHash, !.call.elapsed = 0,
              !.hist.pendingRead = NoNum, !.hist.readAt = NoHash,
              !.hist.estimate = NoNum, !.hist.priceRead = NoNum, !.hist.priceAt = NoHash]

\* LoopHead with the loop condition off by one (`attempt <= retries + 1`)
LoopHeadOffByOne(s) ==
    IF s.call.attempt <= s.call.retries + 1
    THEN [s EXCEPT !.call.pc = "nonce", !.hist.events = Append(@, 0)]
    ELSE FailReturn(s)

\* the loop condition `attempt <= retries` and the start of the attempt
LoopHead(s) ==
    IF s.call.attempt <= s.call.retries
    THEN [s EXCEPT !.call.pc = "nonce", !.hist.events = Append(@, 0)]
    ELSE FailReturn(s)

\* attempt++
NextAttempt(s) == LoopHead([EndAttempt(s) EXCEPT !.call.attempt = @ + 1])

\* let lastError = ''; let backoffMs = 3000; for (let attempt = 1; ...
EnterLoop(s) ==
    LoopHead([s EXCEPT !.call.attempt = 1, !.call.lastError = <<>>,
                       !.call.backoffMs = InitialBackoffMs])

\* NextBackoff growing linearly (`backoffMs += 3000`)
NextBackoffLinear(ms) == ms + 3000

\* backoffMs *= 2
NextBackoff(ms) == ms * 2

\* the catch block of the retry loop
CatchRetry(s, err) ==
    LET msg == ErrMsg(err, DefaultMsg(s.call.op))
        s1  == [EndAttempt(s) EXCEPT !.call.lastError = msg, !.hist.thrown = msg]
    IN  IF IsRetryable(msg) THEN [s1 EXCEPT !.call.pc = "backoff"]
        ELSE FailReturn(s1)

\* the catch (and finally) block of approve and of emergencyWithdraw
CatchSingle(s, err) ==
    LET msg == ErrMsg(err, DefaultMsg(s.call.op))
        s1  == [s EXCEPT !.hook.txError = msg, !.hist.thrown = msg]
    IN  IF s.call.op = "approve"
        THEN Ret([s1 EXCEPT !.hook.isApproving = FALSE], Failure(msg))
        ELSE Ret([s1 EXCEPT !.hook.isProcessing = FALSE], Failure(msg))

Catch(s, err) == IF s.call.op \in RetryOps THEN CatchRetry(s, err) ELSE CatchSingle(s, err)

\* ------------------------------------------------------------------------
\* useStake: pool verification and the checks of stake before its loop
\* ------------------------------------------------------------------------

\* the pid argument of the hook (its default)
Pid == 0

MsgPoolMissing  == <<"Pool", "ID", "does", "not", "exist">>
MsgPoolZeroLp   == <<"Pool", "has", "zero", "address", "LP", "token">>
MsgVerifyFailed(err) == <<"Pool", "verification", "failed:">> \o err.message

\* answers of the MasterChef reads
PoolLengths == {0, 1}
LpTokens    == {"zero", "config", "other"}
AllocPoints == {0, 100}

\* AllowanceBlocks without the comparison (`!allowance`)
AllowanceBlocksMissingOnly(allowance, amountWei) ==
    ~Truthy(allowance)

\* `!allowance || allowance < amountWei`
AllowanceBlocks(allowance, amountWei) ==
    ~Truthy(allowance) \/ BigLess(allowance, amountWei)

\* `lpBalance && amountWei > lpBalance`
BalanceBlocks(lpBalance, amountWei) ==
    Truthy(lpBalance) /\ BigLess(lpBalance, amountWei)

\* stake, from setIsProcessing(true) to the start of the first attempt
StakeAfterVerify(s) ==
    LET s1 == [s EXCEPT !.hook.isProcessing = TRUE, !.hook.txError = NoMsg,
                        !.hook.isSuccess = FALSE]
        pu == ParseUnits(s.call.amount, Decimals)
    IN  IF ~pu.ok THEN Ret(s1, Rejected)
        ELSE IF BalanceBlocks(s.call.cLpBalance, pu.mag)
        THEN Ret([s1 EXCEPT !.hook.isProcessing = FALSE], Failure(MsgInsufficient))
        ELSE IF AllowanceBlocks(s.call.cAllowance, pu.mag)
        THEN Ret([s1 EXCEPT !.hook.isProcessing = FALSE], Failure(MsgPleaseApprove))
        ELSE EnterLoop([s1 EXCEPT !.call.amountWei = pu.mag, !.call.cAllowance = NoBig,
                                  !.call.cLpBalance = NoBig, !.call.cPoolError = NoMsg])

\* stake when verifyPool() returned false: error is `poolError || '...'` of the
\* render that created the callback
StakeVerifyFailed(s) ==
    Ret(s, Failure(IF s.call.cPoolError \notin {NoMsg, <<>>} THEN s.call.cPoolError
                   ELSE MsgPoolFailed))

\* verifyPool after the poolLength read; cont tells whether poolInfo is read next
VerifyPoolLength(h, resp) ==
    IF resp.throws
    THEN [hook |-> [h EXCEPT !.poolError = MsgVerifyFailed(resp.err)], cont |-> FALSE]
    ELSE IF Pid >= resp.value
    THEN [hook |-> [h EXCEPT !.poolError = MsgPoolMissing], cont |-> FALSE]
    ELSE [hook |-> h, cont |-> TRUE]

\* VerifyPoolInfo without the zero-address check
VerifyPoolInfoZeroLpPasses(h, resp) ==
    IF resp.throws
    THEN [hook |-> [h EXCEPT !.poolError = MsgVerifyFailed(resp.err)], cont |-> FALSE]
    ELSE [hook |-> [h EXCEPT !.poolVerified = TRUE], cont |-> TRUE]

\* verifyPool after the poolInfo read; cont is its return value
VerifyPoolInfo(h, resp) ==
    IF resp.throws
    THEN [hook |-> [h EXCEPT !.poolError = MsgVerifyFailed(resp.err)], cont |-> FALSE]
    ELSE IF resp.lpToken = "zero"
    THEN [hook |-> [h EXCEPT !.poolError = MsgPoolZeroLp], cont |-> FALSE]
    ELSE [hook |-> [h EXCEPT !.poolVerified = TRUE], cont |-> TRUE]

\* the error a failing MasterChef read throws
ReadError == [shortMessage |-> <<>>, message |-> <<"execution", "reverted">>]

PoolLengthResponses ==
    { [throws |-> FALSE, value |-> v, err |-> ReadError] : v \in PoolLengths }
      \cup { [throws |-> TRUE, value |-> 0, err |-> ReadError] }

PoolInfoResponses ==
    { [throws |-> FALSE, lpToken |-> t, allocPoint |-> a, err |-> ReadError] :
          t \in LpTokens, a \in AllocPoints }
      \cup { [throws |-> TRUE, lpToken |-> "zero", allocPoint |-> 0, err |-> ReadError] }

\* the hook with the answer of the poolLength read recorded
SeenLength(h, resp) ==
    IF env.reads # "verifying" THEN h
    ELSE [h EXCEPT !.poolSeen = [NoSeen EXCEPT !.poolLength = IF resp.throws THEN NoNum
                                                              ELSE resp.value,
                                                !.threw = resp.throws]]

\* the hook with the answer of the poolInfo read recorded
SeenInfo(h, resp) ==
    IF env.reads # "verifying" THEN h
    ELSE [h EXCEPT !.poolSeen.lpToken = IF resp.throws THEN None ELSE resp.lpToken,
                   !.poolSeen.allocPoint = IF resp.throws THEN NoNum ELSE resp.allocPoint,
                   !.poolSeen.threw = resp.throws]

\* ------------------------------------------------------------------------
\* Actions: the start of each hook call (up to its first await)
\* ------------------------------------------------------------------------

CanStart(kind) ==
    /\ call.pc = "idle"
    /\ hook.kind = kind
    /\ hist.calls < CallsTried

\* stake is called.  Its callback is created again when allowance or lpBalance
\* change, not when poolVerified or poolError do (they are not among its
\* dependencies): it holds the allowance and balance of the current render and
\* the poolVerified and poolError either of the current render (fresh) or of
\* the first one.
StartStake(amount, retries, connected, fresh) ==
    /\ CanStart("useStake")
    /\ LET cVerified == IF fresh THEN hook.poolVerified ELSE FALSE
           cError    == IF fresh THEN hook.poolError ELSE NoMsg
           sb == Begin(Cur, "stake", amount, retries)
           s0 == [sb EXCEPT !.hist.start = [amount |-> amount, allowance |-> hook.allowance,
                                            lpBalance |-> hook.lpBalance,
                                            connected |-> connected,
                                            poolVerified |-> cVerified,
                                            verified |-> cVerified]]
           s1 == [s0 EXCEPT !.call.cAllowance = hook.allowance,
                            !.call.cLpBalance = hook.lpBalance,
                            !.call.cPoolError = cError]
       IN  Apply(IF ~connected THEN Ret(s0, Failure(MsgNotConnected))
                 ELSE IF amount = <<>> \/ ParseFloat(amount) \in {"neg", "zero"}
                 THEN Ret(s0, Failure(MsgInvalidAmount))
                 ELSE IF ~cVerified
                 THEN [s1 EXCEPT !.call.pc = "poolLength", !.hook.poolError = NoMsg]
                 ELSE StakeAfterVerify(s1))

StakePoolLength(resp) ==
    /\ call.pc = "poolLength"
    /\ LET v == VerifyPoolLength(hook, resp)
           s == [Cur EXCEPT !.hook = SeenLength(v.hook, resp)]
       IN  Apply(IF v.cont THEN [s EXCEPT !.call.pc = "poolInfo"] ELSE StakeVerifyFailed(s))

StakePoolInfo(resp) ==
    /\ call.pc = "poolInfo"
    /\ LET v == VerifyPoolInfo(hook, resp)
           s == [Cur EXCEPT !.hook = SeenInfo(v.hook, resp)]
       IN  Apply(IF v.cont THEN StakeAfterVerify([s EXCEPT !.hist.start.verified = TRUE])
                 ELSE StakeVerifyFailed(s))

\* the effect that verifies the pool after mount: verifyPool run to completion
MountVerifyPool(r1, r2) ==
    /\ call.pc = "idle"
    /\ hook.kind = "useStake"
    /\ ~hook.poolVerified
    /\ hook.poolError = NoMsg
    /\ LET v1 == VerifyPoolLength(hook, r1)
           h1 == SeenLength(v1.hook, r1)
           v2 == VerifyPoolInfo(h1, r2)
       IN  Apply([Cur EXCEPT !.hook = IF v1.cont THEN SeenInfo(v2.hook, r2) ELSE h1])

StartUnstake(amount, retries, connected) ==
    /\ CanStart("useStake")
    /\ LET s0 == Begin(Cur, "unstake", amount, retries)
           s1 == [s0 EXCEPT !.hook.isProcessing = TRUE, !.hook.txError = NoMsg,
                            !.hook.isSuccess = FALSE]
           pu == ParseUnits(amount, Decimals)
       IN  Apply(IF ~connected THEN Ret(s0, Failure(MsgNotConnected))
                 ELSE IF amount = <<>> \/ ParseFloat(amount) \in {"neg", "zero"}
                 THEN Ret(s0, Failure(MsgInvalidAmount))
                 ELSE IF ~pu.ok THEN Ret(s1, Rejected)
                 ELSE EnterLoop([s1 EXCEPT !.call.amountWei = pu.mag]))

StartHarvest(retries, connected) ==
    /\ CanStart("useHarvest")
    /\ LET s0 == Begin(Cur, "harvest", <<>>, retries)
           s1 == [s0 EXCEPT !.hook.isProcessing = TRUE, !.hook.txError = NoMsg,
                            !.hook.isSuccess = FALSE, !.call.amountWei = BigZero]
       IN  Apply(IF ~connected THEN Ret(s0, Failure(MsgNotConnected))
                 ELSE EnterLoop(s1))

StartApprove(connected) ==
    /\ CanStart("useStake")
    /\ LET s0 == Begin(Cur, "approve", <<>>, 1)
           s1 == [s0 EXCEPT !.hook.isApproving = TRUE, !.hook.txError = NoMsg,
                            !.hook.isSuccess = FALSE, !.call.amountWei = MaxUint256,
                            !.call.attempt = 1, !.call.pc = "nonce",
                            !.hist.events = <<0>>]
       IN  Apply(IF ~connected THEN Ret(s0, Failure(MsgNotConnected)) ELSE s1)

StartEmergencyWithdraw(connected) ==
    /\ CanStart("useHarvest")
    /\ LET s0 == Begin(Cur, "emergencyWithdraw", <<>>, 1)
           s1 == [s0 EXCEPT !.hook.isProcessing = TRUE, !.hook.txError = NoMsg,
                            !.call.attempt = 1, !.call.pc = "nonce",
                            !.hist.events = <<0>>]
       IN  Apply(IF ~connected THEN Ret(s0, Failure(MsgNotConnected)) ELSE s1)

\* ------------------------------------------------------------------------
\* One attempt: nonce, gas, gas price, submission
\* ------------------------------------------------------------------------

\* the transaction counts of the account: latest block and pending
NonceAnswers == { [latest |-> l, pending |-> p] : l, p \in 0..MaxNonce } 

\* FreshNonce reading the count of the latest block
FreshNonceLatest(counts) == counts.latest

\* getTransactionCount({ address, blockTag: 'pending' })
FreshNonce(counts) == counts.pending

\* GasWithBuffer keeping the buffer only (`estimated * 80n / 100n`, `* 50n / 100n`)
GasWithBufferOnly(op, estimated) ==
    IF op \in StakeHookOps THEN (estimated * 80) \div 100
    ELSE (estimated * 50) \div 100

\* (estimated * 180n) / 100n in useStake, (estimated * 150n) / 100n in useHarvest
GasWithBuffer(op, estimated) ==
    IF op \in StakeHookOps THEN (estimated * StakeGasBufferPct) \div 100
    ELSE (estimated * HarvestGasBufferPct) \div 100

GasDefault(op) == IF op \in StakeHookOps THEN StakeGasDefault ELSE HarvestGasDefault

\* (gasPrice * 130n) / 100n
GasPriceWithPremium(gasPrice) == (gasPrice * GasPricePremiumPct) \div 100

\* the contract function each operation calls
FunctionOf(op) ==
    CASE op \in {"stake", "harvest"} -> "deposit"
      [] op = "unstake"               -> "withdraw"
      [] op = "approve"               -> "approve"
      [] op = "emergencyWithdraw"     -> "emergencyWithdraw"

\* getFreshNonce resolves
GetNonce(counts) ==
    /\ call.pc = "nonce"
    /\ counts.latest <= counts.pending
    /\ Apply([Cur EXCEPT !.call.nonce = FreshNonce(counts),
                         !.call.pc = IF call.op = "emergencyWithdraw" THEN "gasPrice" ELSE "gas",
                         !.hist.pendingRead = counts.pending,
                         !.hist.readAt = <<hist.calls, call.attempt>>])

GetNonceThrows(err) ==
    /\ call.pc = "nonce"
    /\ Apply(Catch(Cur, err))

\* estimateGasWithBuffer resolves: est is the node's estimate, NoNum when the
\* estimation throws (caught inside estimateGasWithBuffer)
EstimateGas(est) ==
    /\ call.pc = "gas"
    /\ Apply([Cur EXCEPT !.call.gas = IF est = NoNum THEN GasDefault(call.op)
                                      ELSE GasWithBuffer(call.op, est),
                         !.hist.estimate = est,
                         !.call.pc = IF call.op = "approve" THEN "write" ELSE "gasPrice"])

GetGasPrice(p) ==
    /\ call.pc = "gasPrice"
    /\ Apply([Cur EXCEPT !.call.gasPrice = GasPriceWithPremium(p),
                         !.hist.priceRead = p,
                         !.hist.priceAt = <<hist.calls, call.attempt>>,
                         !.call.gas = IF call.op = "emergencyWithdraw" THEN HarvestGasDefault ELSE @,
                         !.call.pc = "write"])

GetGasPriceThrows(err) ==
    /\ call.pc = "gasPrice"
    /\ Apply(Catch(Cur, err))

\* WaitLoopCond with `<=`
WaitLoopCondInclusive(elapsed, timeoutMs) == elapsed <= timeoutMs

\* `Date.now() - startTime < timeoutMs`
WaitLoopCond(elapsed, timeoutMs) == elapsed < timeoutMs

\* walletClient.writeContract resolves with a hash; setTxHash; waitForTx starts
WriteContract ==
    /\ call.pc = "write"
    /\ LET h  == <<hist.calls, call.attempt>>
           tx == [fn |-> FunctionOf(call.op), amountWei |-> call.amountWei, nonce |-> call.nonce,
                  gas |-> call.gas, gasPrice |-> call.gasPrice, hash |-> h,
                  pendingRead |-> hist.pendingRead, readAt |-> hist.readAt,
                  estimate |-> hist.estimate, priceRead |-> hist.priceRead,
                  priceAt |-> hist.priceAt]
       IN  Apply([Cur EXCEPT !.call.hash = h, !.call.elapsed = 0, !.call.pc = "receipt",
                             !.call.nonce = NoNum, !.call.gas = NoNum, !.call.gasPrice = NoNum,
                             !.hook.txHash = h,
                             !.hist.sent = @ + 1, !.hist.lastTx = tx,
                             !.hist.pendingRead = NoNum, !.hist.readAt = NoHash,
                             !.hist.estimate = NoNum, !.hist.priceRead = NoNum,
                             !.hist.priceAt = NoHash,
                             !.hist.chain = IF env.reads = "late"
                                            THEN @ \cup {[hash |-> h, fn |-> tx.fn,
                                                          nonce |-> call.nonce,
                                                          status |-> "pending"]}
                                            ELSE @])

WriteContractThrows(err) ==
    /\ call.pc = "write"
    /\ Apply(Catch([Cur EXCEPT !.hist.sent = @ + 1], err))

\* ------------------------------------------------------------------------
\* waitForTx and what follows it
\* ------------------------------------------------------------------------

\* ReceiptOk accepting any receipt (`!!receipt`)
ReceiptOkAnyStatus(status) == status # None

\* `receipt.status === 'success'`
ReceiptOk(status) == status = "success"

\* AfterSleep with the start time taken again in every iteration
AfterSleepRestarted(elapsed) == 0

\* elapsed time after the 2 s sleep of one polling iteration
AfterSleep(elapsed) == elapsed + PollMs

\* the statements after `const confirmed = await waitForTx(...)`
AfterWait(s, confirmed) ==
    CASE s.call.op \in RetryOps ->
           IF confirmed
           THEN Ret([s EXCEPT !.hook.isSuccess = TRUE, !.hook.isProcessing = FALSE],
                    Success(s.call.hash))
           ELSE NextAttempt([s EXCEPT !.call.lastError = MsgNotInTime])
      [] s.call.op = "approve" ->
           IF confirmed
           THEN [s EXCEPT !.call.pc = "extraWait"]
           ELSE Ret([s EXCEPT !.hook.isApproving = FALSE], Failure(MsgApprovalNotConfirmed))
      [] s.call.op = "emergencyWithdraw" ->
           IF confirmed
           THEN Ret([s EXCEPT !.hook.isSuccess = TRUE, !.hook.isProcessing = FALSE],
                    Success(s.call.hash))
           ELSE Ret([s EXCEPT !.hook.txError = MsgEmergencyNotConfirmed,
                              !.hook.isProcessing = FALSE],
                    Failure(MsgEmergencyNotConfirmed))

\* a transaction can be included in a block while no other transaction of the
\* account with the same nonce has been included, and after the smaller
\* nonces the call has used have been taken by included transactions
CanBeMined(t, chain) ==
    /\ t.status = "pending"
    /\ \A u \in chain \ {t} : u.nonce = t.nonce => u.status = "pending"
    /\ \A u \in chain : u.nonce < t.nonce =>
           \E v \in chain : v.nonce = u.nonce /\ v.status # "pending"

\* the chain after transaction t was included with the given status
Mined(chain, t, status) == (chain \ {t}) \cup {[t EXCEPT !.status = status]}

\* getTransactionReceipt resolves with a receipt after k polling intervals:
\* the transaction waited for has been included
LookupReceipt(status, k) ==
    /\ call.pc = "receipt"
    /\ \A t \in hist.chain : t.hash = call.hash => CanBeMined(t, hist.chain)
    /\ LET w == [hash |-> call.hash, confirmed |-> ReceiptOk(status), receipt |-> status,
                 issuedAt |-> call.elapsed, endedAt |-> call.elapsed + k * PollMs]
           c == IF \E t \in hist.chain : t.hash = call.hash
                THEN Mined(hist.chain, CHOOSE t \in hist.chain : t.hash = call.hash, status)
                ELSE hist.chain
       IN  Apply(AfterWait([Cur EXCEPT !.hist.lastWait = w, !.hist.lastLookup = status,
                                      !.hist.confirmed = IF status = "success" THEN call.hash
                                                         ELSE @,
                                      !.hist.chain = c],
                           ReceiptOk(status)))

\* getTransactionReceipt throws ("throw") or resolves with nothing ("null")
LookupMiss(kind, k) ==
    /\ call.pc = "receipt"
    /\ Apply([Cur EXCEPT !.call.pc = "sleep", !.call.elapsed = @ + k * PollMs,
                         !.hist.lastLookup = kind])

\* the 2 s timer fires and the loop condition is evaluated again
Sleep ==
    /\ call.pc = "sleep"
    /\ LET e == AfterSleep(call.elapsed)
           w == [hash |-> call.hash, confirmed |-> FALSE, receipt |-> None,
                 issuedAt |-> NoNum, endedAt |-> e]
       IN  Apply(IF WaitLoopCond(e, TimeoutOf(call.op))
                 THEN [Cur EXCEPT !.call.pc = "receipt", !.call.elapsed = e,
                                  !.hist.lastLookup = None]
                 ELSE AfterWait([Cur EXCEPT !.call.elapsed = e, !.hist.lastWait = w,
                                            !.hist.lastLookup = None], FALSE))

\* the backoff timer fires: backoffMs *= 2; continue
Backoff ==
    /\ call.pc = "backoff"
    /\ Apply(NextAttempt([Cur EXCEPT !.call.backoffMs = NextBackoff(@),
                                     !.hist.events = Append(@, call.backoffMs)]))

\* approve: the extra 3 s wait after the confirmation
ExtraWait ==
    /\ call.pc = "extraWait"
    /\ Apply([Cur EXCEPT !.call.pc = "refetch"])

\* approve: refetchAllowance resolves with value v; setIsSuccess(true); return
Refetch(v) ==
    /\ call.pc = "refetch"
    /\ Apply(Ret([Cur EXCEPT !.hook.allowance = v, !.hook.isSuccess = TRUE,
                             !.hook.isApproving = FALSE],
                 Success(call.hash)))

\* ------------------------------------------------------------------------
\* Other hook operations and reads
\* ------------------------------------------------------------------------

reset ==
    /\ call.pc = "idle"
    /\ hook' = [hook EXCEPT !.txError = NoMsg, !.txHash = NoHash, !.isSuccess = FALSE]
    /\ hook' # hook
    /\ hist' = Cur.hist
    /\ UNCHANGED <<env, call, flow, pool, liq, modal, adding>>

\* the allowance read of the hook delivers a new value while stake awaits the
\* pool verification.  A running call uses the value its callback captured.
AllowanceRead(v) ==
    /\ hook.kind = "useStake"
    /\ env.reads = "changing"
    /\ call.pc \in {"poolLength", "poolInfo"}
    /\ v # hook.allowance
    /\ hook' = [hook EXCEPT !.allowance = v]
    /\ UNCHANGED <<env, call, hist, flow, pool, liq, modal, adding>>

BalanceRead(v) ==
    /\ hook.kind = "useStake"
    /\ env.reads = "changing"
    /\ call.pc \in {"poolLength", "poolInfo"}
    /\ v # hook.lpBalance
    /\ hook' = [hook EXCEPT !.lpBalance = v]
    /\ UNCHANGED <<env, call, hist, flow, pool, liq, modal, adding>>

\* ------------------------------------------------------------------------
\* Specification
\* ------------------------------------------------------------------------

Connected == BOOLEAN

StartStep ==
    \/ \E a \in AmountsTried, r \in RetriesTried, c \in Connected, f \in CallbacksTried :
           StartStake(a, r, c, f)
    \/ \E a \in AmountsTried, r \in RetriesTried, c \in Connected : StartUnstake(a, r, c)
    \/ \E r \in RetriesTried, c \in Connected : StartHarvest(r, c)
    \/ \E c \in Connected : StartApprove(c)
    \/ \E c \in Connected : StartEmergencyWithdraw(c)

\* the steps of a call in progress: an awaited call resolves or throws, a timer fires
CallStep ==
    \/ \E r \in PoolLengthResponses : StakePoolLength(r)
    \/ \E r \in PoolInfoResponses : StakePoolInfo(r)
    \/ \E n \in NonceAnswers : GetNonce(n)
    \/ \E e \in Errors : GetNonceThrows(e)
    \/ \E g \in GasEstimates \cup {NoNum} : EstimateGas(g)
    \/ \E p \in GasPrices : GetGasPrice(p)
    \/ \E e \in Errors : GetGasPriceThrows(e)
    \/ WriteContract
    \/ \E e \in Errors : WriteContractThrows(e)
    \/ \E st \in {"success", "reverted"}, k \in LookupPolls : LookupReceipt(st, k)
    \/ \E m \in {"throw", "null"}, k \in LookupPolls : LookupMiss(m, k)
    \/ Sleep
    \/ Backoff
    \/ ExtraWait
    \/ \E v \in {MaxUint256, hook.allowance} : Refetch(v)

EnvStep ==
    \/ \E r1 \in PoolLengthResponses, r2 \in PoolInfoResponses : MountVerifyPool(r1, r2)
    \/ \E v \in AllowanceValues : AllowanceRead(v)
    \/ \E v \in BalanceValues : BalanceRead(v)
    \/ reset

Next == StartStep \/ CallStep \/ EnvStep

Spec == Init /\ [][Next]_vars

\* every awaited call resolves or throws and every timer fires
FairSpec == Spec /\ WF_vars(CallStep)

\* ------------------------------------------------------------------------
\* The chain: what becomes of the transactions of one stake or unstake call
\*
\* In the "late" environment the pool is verified, the allowance is
\* unlimited, the gas price read answers, each receipt lookup takes
\* SlowLookupPolls intervals, and a transaction the call has stopped waiting
\* for can still be included.
\* ------------------------------------------------------------------------

LateEnv == [kind |-> "useStake", reads |-> "late"]

ChainInit ==
    /\ env = LateEnv
    /\ hook = [HookInit("useStake") EXCEPT !.poolVerified = TRUE, !.allowance = MaxUint256]
    /\ call = IdleCall
    /\ hist = NewHist(0)
    /\ flow = NoFlow
    /\ pool = NoPool
    /\ liq = NoLiq
    /\ modal = NoModal
    /\ adding = NoAdding

\* a transaction the call is not waiting for is included in a block
LateConfirm ==
    /\ env = LateEnv
    /\ \E t \in hist.chain, status \in {"success", "reverted"} :
          /\ t.hash # call.hash
          /\ CanBeMined(t, hist.chain)
          /\ hist' = [hist EXCEPT !.chain = Mined(@, t, status)]
    /\ UNCHANGED <<env, hook, call, flow, pool, liq, modal, adding>>

ChainNext ==
    \/ \E a \in PlainAmounts : StartStake(a, DefaultRetries, TRUE, TRUE)
    \/ \E a \in PlainAmounts : StartUnstake(a, DefaultRetries, TRUE)
    \/ \E n \in NonceAnswers : GetNonce(n)
    \/ \E e \in Errors : GetNonceThrows(e)
    \/ \E g \in GasEstimates \cup {NoNum} : EstimateGas(g)
    \/ \E p \in GasPrices : GetGasPrice(p)
    \/ WriteContract
    \/ \E e \in Errors : WriteContractThrows(e)
    \/ \E st \in {"success", "reverted"}, k \in LookupPolls : LookupReceipt(st, k)
    \/ \E m \in {"throw", "null"}, k \in LookupPolls : LookupMiss(m, k)
    \/ Sleep
    \/ Backoff
    \/ LateConfirm

ChainSpec == ChainInit /\ [][ChainNext]_vars

\* ------------------------------------------------------------------------
\* Pool verification: stake calls of a hook whose pool is not verified at
\* mount.  In the "verifying" environment the allowance is unlimited, the
\* nonce, gas and gas price reads answer and each receipt lookup takes
\* SlowLookupPolls intervals; the MasterChef answers each read with any
\* value or throws, and the answers of the last verifyPool run are recorded.
\* ------------------------------------------------------------------------

VerifyEnv == [kind |-> "useStake", reads |-> "verifying"]

VerifyInit ==
    /\ env = VerifyEnv
    /\ hook = [HookInit("useStake") EXCEPT !.allowance = MaxUint256]
    /\ call = IdleCall
    /\ hist = NewHist(0)
    /\ flow = NoFlow
    /\ pool = NoPool
    /\ liq = NoLiq
    /\ modal = NoModal
    /\ adding = NoAdding

VerifyNext ==
    \/ \E r1 \in PoolLengthResponses, r2 \in PoolInfoResponses : MountVerifyPool(r1, r2)
    \/ \E a \in PlainAmounts, f \in BOOLEAN : StartStake(a, DefaultRetries, TRUE, f)
    \/ \E r \in PoolLengthResponses : StakePoolLength(r)
    \/ \E r \in PoolInfoResponses : StakePoolInfo(r)
    \/ \E n \in NonceAnswers : GetNonce(n)
    \/ \E g \in GasEstimates \cup {NoNum} : EstimateGas(g)
    \/ \E p \in GasPrices : GetGasPrice(p)
    \/ WriteContract
    \/ \E st \in {"success", "reverted"}, k \in LookupPolls : LookupReceipt(st, k)

VerifySpec == VerifyInit /\ [][VerifyNext]_vars

\* ------------------------------------------------------------------------
\* Approval-then-action flows: useApproval, useLPApproval, AddLiquidityModal
\* (one token side), RemoveLiquidityModal and useStake.  A flow holds the
\* requested amount, the allowance its hook last read and the allowance on
\* chain; its steps are: the gate demands approval and the approval is sent,
\* the approval is confirmed, the allowance is read again.
\* ------------------------------------------------------------------------

FlowNames == {"useApproval", "useLPApproval", "AddLiquidityModal", "RemoveLiquidityModal",
              "useStake"}

\* the token of a flow: an ERC-20 token, native MON, or no token selected
FlowTokens == {"erc20", "native", "none"}

\* amounts typed by the user: nothing, 0, -1, and the whole-token amounts 1,
\* 999999999, 1000000000, 999999999999 and 1000000000000
FlowAmounts ==
    { <<>>, <<"0">>, <<"-", "1">>,
      <<"1">>,
      <<"9","9","9","9","9","9","9","9","9">>,
      <<"1","0","0","0","0","0","0","0","0","0">>,
      <<"9","9","9","9","9","9","9","9","9","9","9","9">>,
      <<"1","0","0","0","0","0","0","0","0","0","0","0","0">> }

FlowDecimals == {6, 18}
Percentages  == {50, 100}

\* decimal digits of a natural number
RECURSIVE DigitsOf(_)
DigitsOf(n) == IF n < 10 THEN <<n>> ELSE DigitsOf(n \div 10) \o <<n % 10>>

\* bigint * k for a small k
RECURSIVE MulFrom(_, _, _, _)
MulFrom(d, k, i, carry) ==
    IF i = 0 THEN (IF carry = 0 THEN <<>> ELSE DigitsOf(carry))
    ELSE LET v == d[i] * k + carry
         IN  MulFrom(d, k, i - 1, v \div 10) \o <<v % 10>>

BigMul(d, k) == Canon(MulFrom(d, k, Len(d), 0))

\* bigint / k (truncating) for a small k
RECURSIVE DivFrom(_, _, _, _)
DivFrom(d, k, i, rem) ==
    IF i > Len(d) THEN <<>>
    ELSE LET v == rem * 10 + d[i]
         IN  <<v \div k>> \o DivFrom(d, k, i + 1, v % k)

BigDiv(d, k) == Canon(DivFrom(d, k, 1, 0))

\* `amount && parseFloat(amount) > 0 ? parseUnits(amount, decimals) : 0n`
AmountBigInt(amount, decimals) ==
    IF amount # <<>> /\ ParseFloat(amount) = "pos" THEN ParseUnits(amount, decimals).mag
    ELSE BigZero

\* `(allowance as bigint) || 0n`
CurrentAllowance(allowance) == IF Truthy(allowance) THEN allowance ELSE BigZero

\* `lpBalance ? (lpBalance * BigInt(percentage)) / 100n : 0n`
LpToRemoveWei(lpBalance, percentage) ==
    IF Truthy(lpBalance) THEN BigDiv(BigMul(lpBalance, percentage), 100) ELSE BigZero

\* the amount in wei the flow's gate compares the allowance with
RequestedWei(f) ==
    CASE f.name \in {"useApproval", "AddLiquidityModal"} -> AmountBigInt(f.amount, f.decimals)
      [] f.name = "useLPApproval"        -> f.lp
      [] f.name = "RemoveLiquidityModal" -> LpToRemoveWei(f.lp, f.percentage)
      [] f.name = "useStake"             -> ParseUnits(f.amount, Decimals).mag

\* `tokenAddress === NATIVE_ADDRESS || !tokenAddress` in useApproval,
\* `token.isNative` in AddLiquidityModal
IsNative(f) ==
    IF f.name = "useApproval" THEN f.token \in {"native", "none"} ELSE f.token = "native"

\* NeedsApproval with `<=` in the comparison of useApproval
NeedsApprovalNonStrict(f) ==
    LET amt == RequestedWei(f)
    IN  CASE f.name = "useApproval" ->
               ~IsNative(f) /\ BigLess(BigZero, amt)
                    /\ ~BigLess(amt, CurrentAllowance(f.allowance))
          [] f.name = "useLPApproval" ->
               BigLess(BigZero, amt) /\ BigLess(CurrentAllowance(f.allowance), amt)
          [] f.name = "AddLiquidityModal" ->
               ~IsNative(f) /\ f.allowance # NoBig /\ BigLess(BigZero, amt)
                    /\ BigLess(f.allowance, amt)
          [] f.name = "RemoveLiquidityModal" ->
               f.allowance # NoBig /\ BigLess(BigZero, amt) /\ BigLess(f.allowance, amt)
          [] f.name = "useStake" ->
               IF f.amount = <<>> \/ ~Truthy(f.allowance) THEN TRUE
               ELSE IF ParseUnits(f.amount, Decimals).ok
               THEN ~ParseUnits(f.amount, Decimals).neg /\ BigLess(f.allowance, amt)
               ELSE TRUE

\* the gate of each flow
NeedsApproval(f) ==
    LET amt == RequestedWei(f)
    IN  CASE f.name = "useApproval" ->
               ~IsNative(f) /\ BigLess(BigZero, amt) /\ BigLess(CurrentAllowance(f.allowance), amt)
          [] f.name = "useLPApproval" ->
               BigLess(BigZero, amt) /\ BigLess(CurrentAllowance(f.allowance), amt)
          [] f.name = "AddLiquidityModal" ->
               ~IsNative(f) /\ f.allowance # NoBig /\ BigLess(BigZero, amt)
                    /\ BigLess(f.allowance, amt)
          [] f.name = "RemoveLiquidityModal" ->
               f.allowance # NoBig /\ BigLess(BigZero, amt) /\ BigLess(f.allowance, amt)
          [] f.name = "useStake" ->
               IF f.amount = <<>> \/ ~Truthy(f.allowance) THEN TRUE
               ELSE IF ParseUnits(f.amount, Decimals).ok
               THEN ~ParseUnits(f.amount, Decimals).neg /\ BigLess(f.allowance, amt)
               ELSE TRUE

\* the amount argument of the approve call each flow sends
ApprovalAmount(f) ==
    CASE f.name = "useApproval" ->
             ParseUnits(<<"9","9","9","9","9","9","9","9","9","9","9","9">>, f.decimals).mag
      [] f.name \in {"useLPApproval", "RemoveLiquidityModal"} ->
             ParseUnits(<<"9","9","9","9","9","9","9","9","9","9","9","9">>, 18).mag
      [] f.name = "AddLiquidityModal" ->
             ParseUnits(<<"9","9","9","9","9","9","9","9","9">>, f.decimals).mag
      [] f.name = "useStake" -> MaxUint256

\* `if (!tokenAddress || isNative) return` in useApproval.approve,
\* `if (!lpTokenAddress) return` in useLPApproval.approve,
\* `if (!pairAddress) return` in approveLp
ApproveSends(f) ==
    CASE f.name = "useApproval" -> ~(f.token = "none" \/ IsNative(f))
      [] f.name \in {"useLPApproval", "RemoveLiquidityModal"} -> f.token # "none"
      [] OTHER -> TRUE

\* the allowance query of the flow is enabled
AllowanceQueryEnabled(f) ==
    CASE f.name \in {"useApproval", "AddLiquidityModal"} -> f.token # "none" /\ ~IsNative(f)
      [] OTHER -> f.token # "none"

\* the token kinds each flow can hold
TokensOf(n) ==
    CASE n = "useApproval"       -> FlowTokens
      [] n = "AddLiquidityModal" -> {"erc20", "native"}
      [] n = "useLPApproval"     -> {"erc20", "none"}
      [] OTHER                   -> {"erc20"}

\* the flows followed: every flow with every amount; tokens of 6 and of 18
\* decimals where the flow takes the decimals of its token; LP amounts are
\* amounts of an 18-decimals token (0 for an amount that is not positive).
\* The allowance on chain is zero or a millionth of a token and the hook has
\* not read it yet.
FlowStarts ==
    { [NoFlow EXCEPT !.name = n, !.decimals = d, !.token = t, !.amount = a,
                     !.lp = AmountBigInt(a, 18), !.percentage = p,
                     !.allowance = NoBig, !.chain = al] :
        n \in FlowNames, d \in FlowDecimals, t \in FlowTokens, a \in FlowAmounts,
        p \in Percentages, al \in {BigZero, ParseUnits(<<"1">>, 6).mag} }

FlowInit ==
    /\ env = [kind |-> "flows", reads |-> "steady"]
    /\ hook = HookInit("flows")
    /\ call = IdleCall
    /\ hist = NewHist(0)
    /\ pool = NoPool
    /\ liq = NoLiq
    /\ modal = NoModal
    /\ adding = NoAdding
    /\ flow \in { f \in FlowStarts :
                    /\ f.name \in {"useLPApproval", "RemoveLiquidityModal", "useStake"}
                          => f.decimals = 18
                    /\ f.name # "RemoveLiquidityModal" => f.percentage = 100
                    /\ f.token \in TokensOf(f.name) }

\* the allowance read of the hook resolves for the first time
FlowAllowanceLoaded ==
    /\ flow.step = "input"
    /\ flow.allowance = NoBig
    /\ AllowanceQueryEnabled(flow)
    /\ flow' = [flow EXCEPT !.allowance = flow.chain]
    /\ UNCHANGED <<env, hook, call, hist, pool, liq, modal, adding>>

\* approve is called: by the user of a hook at any time, in the modals and in
\* StakeModal when the gate demands approval; the approve call is sent unless
\* approve returns at once
FlowApprove ==
    /\ flow.step \in {"input", "reread"}
    /\ flow.name \in {"useApproval", "useLPApproval"} \/ NeedsApproval(flow)
    /\ flow' = IF ApproveSends(flow)
               THEN [flow EXCEPT !.step = "approving", !.approveArg = ApprovalAmount(flow)]
               ELSE flow
    /\ UNCHANGED <<env, hook, call, hist, pool, liq, modal, adding>>

\* the approval transaction is confirmed: the token sets the allowance
FlowConfirm ==
    /\ flow.step = "approving"
    /\ flow' = [flow EXCEPT !.step = "confirmed", !.chain = flow.approveArg]
    /\ UNCHANGED <<env, hook, call, hist, pool, liq, modal, adding>>

\* the approval transaction is rejected or fails
FlowApproveFails ==
    /\ flow.step = "approving"
    /\ flow' = [flow EXCEPT !.step = "input", !.approveArg = NoBig]
    /\ UNCHANGED <<env, hook, call, hist, pool, liq, modal, adding>>

\* refetchAllowance() after the confirmation
FlowRefetch ==
    /\ flow.step = "confirmed"
    /\ flow' = [flow EXCEPT !.step = "reread", !.allowance = flow.chain]
    /\ UNCHANGED <<env, hook, call, hist, pool, liq, modal, adding>>

FlowNext == FlowAllowanceLoaded \/ FlowApprove \/ FlowConfirm \/ FlowApproveFails \/ FlowRefetch

FlowSpec == FlowInit /\ [][FlowNext]_vars

\* ------------------------------------------------------------------------
\* usePoolRatio and the auto-ratio effect of AddLiquidityModal
\*
\* Numbers of type `number` are non-negative rationals [n, d] (d > 0); the
\* strings explored keep every product exact, so the rational is the value
\* the double holds up to the last rounding of IEEE arithmetic.
\* ------------------------------------------------------------------------

RECURSIVE GCD(_, _)
GCD(a, b) == IF b = 0 THEN a ELSE GCD(b, a % b)

Pow10(k) == CASE k = 0 -> 1 [] k = 1 -> 10 [] k = 2 -> 100 [] k = 3 -> 1000
              [] k = 4 -> 10000 [] k = 5 -> 100000 [] k = 6 -> 1000000
              [] k = 7 -> 10000000 [] k = 8 -> 100000000

Rat(n, d) == LET g == GCD(n, d) IN [n |-> n \div g, d |-> d \div g]
RatZero == [n |-> 0, d |-> 1]
RatOne  == [n |-> 1, d |-> 1]
RatMul(p, q) == Rat(p.n * q.n, p.d * q.d)
RatDiv(p, q) == Rat(p.n * q.d, p.d * q.n)
RatLess(p, q) == p.n * q.d < q.n * p.d

\* the number a string of decimal digits denotes
RECURSIVE DigitsToNat(_)
DigitsToNat(s) ==
    IF s = <<>> THEN 0 ELSE 10 * DigitsToNat(Take(s, Len(s) - 1)) + DigitVal(s[Len(s)])

DigitChar(i) ==
    CASE i = 0 -> "0" [] i = 1 -> "1" [] i = 2 -> "2" [] i = 3 -> "3" [] i = 4 -> "4"
      [] i = 5 -> "5" [] i = 6 -> "6" [] i = 7 -> "7" [] i = 8 -> "8" [] i = 9 -> "9"

\* Number.prototype.toString of a natural number
RECURSIVE NatChars(_)
NatChars(n) == IF n < 10 THEN <<DigitChar(n)>> ELSE NatChars(n \div 10) \o <<DigitChar(n % 10)>>

\* the k-digit decimal expansion of n < 10^k, with leading zeros
RECURSIVE PadChars(_, _)
PadChars(n, k) == IF k = 0 THEN <<>> ELSE PadChars(n \div 10, k - 1) \o <<DigitChar(n % 10)>>

\* the magnitude of parseFloat(s), for a string ParseFloat classes as "pos" or
\* "zero" and that has no exponent part
ParseFloatValue(s) ==
    LET signed == s # <<>> /\ Head(s) \in {"-", "+"}
        body   == IF signed THEN Tail(s) ELSE s
        il     == DigitPrefixLen(body)
        rest   == Drop(body, il)
        fl     == IF rest # <<>> /\ Head(rest) = "." THEN DigitPrefixLen(Tail(rest)) ELSE 0
        mant   == Take(body, il) \o (IF fl > 0 THEN Take(Tail(rest), fl) ELSE <<>>)
    IN  Rat(DigitsToNat(mant), Pow10(fl))

\* parseFloat(s) || 0
ParseFloatOrZero(s) == IF ParseFloat(s) = "pos" THEN ParseFloatValue(s) ELSE RatZero

\* x.toFixed(k): the nearest multiple of 10^-k, the larger one on a tie
ToFixed(x, k) ==
    LET whole  == x.n \div x.d
        rem    == x.n % x.d
        scaled == (2 * rem * Pow10(k) + x.d) \div (2 * x.d)
        carry  == scaled \div Pow10(k)
    IN  NatChars(whole + carry) \o <<".">> \o PadChars(scaled % Pow10(k), k)

StrNaN == <<"N", "a", "N">>

\* (0).toExponential(4)
StrZeroExp == <<"0", ".", "0", "0", "0", "0", "e", "+", "0">>

RatThousand == [n |-> 1000, d |-> 1]

\* toFixed with 4 digits in every range
FormatCalculatedFixed4(x) == ToFixed(x, 4)

\* the "appropriate precision" of calculateAmountB / calculateAmountA; a
\* positive value below 0.000001 does not arise from the strings explored
FormatCalculated(x) ==
    IF x = RatZero THEN StrZeroExp
    ELSE IF RatLess(x, RatOne) THEN ToFixed(x, 8)
    ELSE IF RatLess(x, RatThousand) THEN ToFixed(x, 6)
    ELSE ToFixed(x, 4)

\* --- tokens and addresses ---

LowerChar(c) == CASE c = "A" -> "a" [] c = "B" -> "b" [] c = "C" -> "c" [] c = "D" -> "d"
                  [] c = "E" -> "e" [] c = "F" -> "f" [] OTHER -> c

\* UTF-16 code unit of a hexadecimal character
CharCode(c) ==
    CASE c \in DigitChars -> 48 + DigitVal(c)
      [] c = "A" -> 65 [] c = "B" -> 66 [] c = "C" -> 67 [] c = "D" -> 68 [] c = "E" -> 69
      [] c = "F" -> 70
      [] c = "a" -> 97 [] c = "b" -> 98 [] c = "c" -> 99 [] c = "d" -> 100 [] c = "e" -> 101
      [] c = "f" -> 102

ToLowerCase(a) == [i \in 1..Len(a) |-> LowerChar(a[i])]

\* a < b in the order of Array.prototype.sort on strings of the same length
RECURSIVE StrLess(_, _)
StrLess(a, b) ==
    IF a = <<>> THEN FALSE
    ELSE IF Head(a) # Head(b) THEN CharCode(Head(a)) < CharCode(Head(b))
    ELSE StrLess(Tail(a), Tail(b))

\* addresses, by the first seven characters after "0x"
NATIVE_ADDRESS == <<"0", "0", "0", "0", "0", "0", "0">>
WMON           == <<"3", "b", "d", "3", "5", "9", "C">>
QUICK          == <<"6", "d", "4", "2", "e", "F", "C">>
\* a token the user imported, with a checksummed address next to WMON's
IMPORTED       == <<"3", "B", "D", "3", "5", "9", "d">>

Token(symbol) ==
    CASE symbol = "MON"   -> [symbol |-> "MON",   address |-> NATIVE_ADDRESS, isNative |-> TRUE]
      [] symbol = "WMON"  -> [symbol |-> "WMON",  address |-> WMON,           isNative |-> FALSE]
      [] symbol = "QUICK" -> [symbol |-> "QUICK", address |-> QUICK,          isNative |-> FALSE]
      [] symbol = "IMP"   -> [symbol |-> "IMP",   address |-> IMPORTED,       isNative |-> FALSE]

\* every token has 18 decimals but the imported one, which has 6
TokenDecimals(symbol) == IF symbol = "IMP" THEN 6 ELSE 18

TokenSymbols == {"MON", "WMON", "QUICK", "IMP"}

getActualAddress(token) ==
    IF token.address = NATIVE_ADDRESS \/ token.isNative THEN ToLowerCase(WMON)
    ELSE ToLowerCase(token.address)

\* [addressA, addressB].sort() that leaves the order of the arguments
SortedPairUnsorted(addressA, addressB) == <<addressA, addressB>>

\* [addressA, addressB].sort()
SortedPair(addressA, addressB) ==
    IF StrLess(addressB, addressA) THEN <<addressB, addressA>> ELSE <<addressA, addressB>>

\* --- the values usePoolRatio derives from its state in a render ---

reserveA(p) ==
    IF p.reserves # NoReserves
    THEN (IF p.isTokenAFirst THEN p.reserves.reserve0 ELSE p.reserves.reserve1)
    ELSE <<"0">>

reserveB(p) ==
    IF p.reserves # NoReserves
    THEN (IF p.isTokenAFirst THEN p.reserves.reserve1 ELSE p.reserves.reserve0)
    ELSE <<"0">>

reserveANum(p) == ParseFloatOrZero(reserveA(p))
reserveBNum(p) == ParseFloatOrZero(reserveB(p))

ratio(p) ==
    IF reserveANum(p) # RatZero THEN RatDiv(reserveBNum(p), reserveANum(p)) ELSE RatOne

\* reverseRatio computed in the direction of ratio
reverseRatioSameDirection(p) ==
    IF reserveBNum(p) # RatZero THEN RatDiv(reserveBNum(p), reserveANum(p)) ELSE RatOne

reverseRatio(p) ==
    IF reserveBNum(p) # RatZero THEN RatDiv(reserveANum(p), reserveBNum(p)) ELSE RatOne

poolExists(p) == p.reserves # NoReserves

\* the early returns of calculateAmountB / calculateAmountA
ReturnsEmpty(amount) == amount = <<>> \/ ParseFloat(amount) \in {"neg", "zero"}

\* numA * ratio
calculatedB(p, amountA) == RatMul(ParseFloatValue(amountA), ratio(p))

\* numB * reverseRatio
calculatedA(p, amountB) == RatMul(ParseFloatValue(amountB), reverseRatio(p))

\* calculateAmountB that computes from the ratio even without a pair record
calculateAmountBAlwaysRatio(p, amountA) ==
    IF ReturnsEmpty(amountA) THEN <<>>
    ELSE IF ParseFloat(amountA) = "nan" THEN StrNaN
    ELSE FormatCalculated(RatMul(ParseFloatValue(amountA), ratio(p)))

calculateAmountB(p, amountA) ==
    IF ReturnsEmpty(amountA) THEN <<>>
    ELSE IF p.reserves = NoReserves \/ reserveANum(p) = RatZero THEN amountA
    ELSE IF ParseFloat(amountA) = "nan" THEN StrNaN
    ELSE FormatCalculated(calculatedB(p, amountA))

calculateAmountA(p, amountB) ==
    IF ReturnsEmpty(amountB) THEN <<>>
    ELSE IF p.reserves = NoReserves \/ reserveBNum(p) = RatZero THEN amountB
    ELSE IF ParseFloat(amountB) = "nan" THEN StrNaN
    ELSE FormatCalculated(calculatedA(p, amountB))

\* --- the state of the modal and of its usePoolRatio instance ---

\* amount strings: "", "0", "1", "2", "0.5", "-1", "x"
RatioAmounts ==
    { <<>>, <<"0">>, <<"1">>, <<"2">>, <<"0", ".", "5">>, <<"-", "1">>, <<"x">> }

\* the ones typed into a field of the modal
TypedAmounts == { <<>>, <<"0">>, <<"1">>, <<"0", ".", "5">> }

\* Environments of the modal.  In an "editing" one the tokens stay as mounted
\* and the user types amounts and toggles the lock; in a "selecting" one the
\* user changes the tokens and leaves the amounts empty.
RatioEnvs == { [kind |-> "ratio", reads |-> r] : r \in {"editing", "selecting"} }

\* the reserve0 and reserve1 strings of the pair records the indexer answers with
ReservePairs ==
    { <<<<"0">>, <<"0">>>>, <<<<"1">>, <<"3">>>>, <<<<"3">>, <<"1">>>>,
      <<<<"3">>, <<"3">>>>, <<<<"0">>, <<"3">>>> }

\* what the auto-calculation depends on besides the edited amount: for each
\* direction whether the 1:1 default applies, and the ratio
RatioKey(p) ==
    << p.reserves = NoReserves \/ reserveANum(p) = RatZero, ratio(p),
       p.reserves = NoReserves \/ reserveBNum(p) = RatZero, reverseRatio(p) >>

\* the body of fetchReserves up to its await (the error text it sets is not
\* part of the state)
fetchReserves(p) ==
    LET addressA == getActualAddress(Token(p.tokenA))
        addressB == getActualAddress(Token(p.tokenB))
        sorted   == SortedPair(addressA, addressB)
    IN  IF addressA = addressB THEN p
        ELSE [p EXCEPT !.loading = TRUE,
                       !.isTokenAFirst = (addressA = sorted[1]),
                       !.fetches = @ \cup {[token0 |-> sorted[1], token1 |-> sorted[2]]}]

\* the modal as mounted: MON and QUICK selected, the first fetch under way
PoolMounted ==
    fetchReserves([NoPool EXCEPT !.tokenA = "MON", !.tokenB = "QUICK"])

\* a step of the modal other than the auto-calculation; `edited` tells that the
\* user changed an amount.  writes counts the writes of the auto-calculation
\* since the last change of an edited amount or of RatioKey, autoWrote is the
\* field the last step's auto-calculation wrote.
PoolStep(q, edited) ==
    /\ pool' = [q EXCEPT !.autoWrote = None,
                         !.writes = IF edited \/ RatioKey(q) # RatioKey(pool) THEN 0 ELSE @]
    /\ UNCHANGED <<env, hook, call, hist, flow, liq, modal, adding>>

\* the 10 s interval or refetch() calls fetchReserves
PoolRefetch ==
    /\ env.kind = "ratio"
    /\ PoolStep(fetchReserves(pool), FALSE)

\* the indexer answers a request with a pair record
FetchFound ==
    \E rq \in pool.fetches, r \in ReservePairs :
        PoolStep([pool EXCEPT !.reserves = [token0 |-> rq.token0, token1 |-> rq.token1,
                                             reserve0 |-> r[1], reserve1 |-> r[2]],
                              !.loading = FALSE,
                              !.fetches = @ \ {rq}], FALSE)

\* the indexer answers that it has no such pair
FetchNotFound ==
    \E rq \in pool.fetches :
        PoolStep([pool EXCEPT !.reserves = NoReserves,
                              !.loading = FALSE, !.fetches = @ \ {rq}], FALSE)

\* the request fails or the indexer answers with errors
FetchFails ==
    \E rq \in pool.fetches :
        PoolStep([pool EXCEPT !.loading = FALSE, !.fetches = @ \ {rq}], FALSE)

handleAmountAChange ==
    /\ env.kind = "ratio" /\ env.reads = "editing"
    /\ \E value \in TypedAmounts :
        PoolStep([pool EXCEPT !.lastChanged = "a", !.amountA = value], TRUE)

handleAmountBChange ==
    /\ env.kind = "ratio" /\ env.reads = "editing"
    /\ \E value \in TypedAmounts :
        PoolStep([pool EXCEPT !.lastChanged = "b", !.amountB = value], TRUE)

\* the setters of handleSelectTokenA / handleSelectTokenB, followed by the
\* effect that calls fetchReserves when a token changed
SelectTokens(p, a, b) ==
    LET q == [p EXCEPT !.tokenA = a, !.tokenB = b, !.amountA = <<>>, !.amountB = <<>>]
    IN  IF a = p.tokenA /\ b = p.tokenB THEN q ELSE fetchReserves(q)

handleSelectTokenA ==
    /\ env.kind = "ratio" /\ env.reads = "selecting"
    /\ \E token \in TokenSymbols :
        PoolStep(SelectTokens(pool, token,
                              IF Token(token).address = Token(pool.tokenB).address
                              THEN pool.tokenA ELSE pool.tokenB), FALSE)

handleSelectTokenB ==
    /\ env.kind = "ratio" /\ env.reads = "selecting"
    /\ \E token \in TokenSymbols :
        PoolStep(SelectTokens(pool,
                              IF Token(token).address = Token(pool.tokenA).address
                              THEN pool.tokenB ELSE pool.tokenA,
                              token), FALSE)

\* the Auto / Manual button
ToggleLock ==
    /\ env.kind = "ratio" /\ env.reads = "editing"
    /\ PoolStep([pool EXCEPT !.isLocked = ~@], FALSE)

\* the effect writing through handleAmountAChange / handleAmountBChange
AutoCalcViaHandlers(p) ==
    IF ~p.isLocked \/ p.loading THEN [field |-> None, value |-> <<>>, lastChanged |-> p.lastChanged]
    ELSE IF p.lastChanged = "a" /\ p.amountA # <<>>
    THEN LET calcB == calculateAmountB(p, p.amountA)
         IN  IF calcB # <<>> /\ calcB # p.amountB
             THEN [field |-> "b", value |-> calcB, lastChanged |-> "b"]
             ELSE [field |-> None, value |-> <<>>, lastChanged |-> p.lastChanged]
    ELSE IF p.lastChanged = "b" /\ p.amountB # <<>>
    THEN LET calcA == calculateAmountA(p, p.amountB)
         IN  IF calcA # <<>> /\ calcA # p.amountA
             THEN [field |-> "a", value |-> calcA, lastChanged |-> "a"]
             ELSE [field |-> None, value |-> <<>>, lastChanged |-> p.lastChanged]
    ELSE [field |-> None, value |-> <<>>, lastChanged |-> p.lastChanged]

\* what the auto-calculate effect does in a render with state p: the field it
\* sets (None when it sets nothing), the value, and lastChanged afterwards
AutoCalc(p) ==
    IF ~p.isLocked \/ p.loading THEN [field |-> None, value |-> <<>>, lastChanged |-> p.lastChanged]
    ELSE IF p.lastChanged = "a" /\ p.amountA # <<>>
    THEN LET calcB == calculateAmountB(p, p.amountA)
         IN  IF calcB # <<>> /\ calcB # p.amountB
             THEN [field |-> "b", value |-> calcB, lastChanged |-> p.lastChanged]
             ELSE [field |-> None, value |-> <<>>, lastChanged |-> p.lastChanged]
    ELSE IF p.lastChanged = "b" /\ p.amountB # <<>>
    THEN LET calcA == calculateAmountA(p, p.amountB)
         IN  IF calcA # <<>> /\ calcA # p.amountA
             THEN [field |-> "a", value |-> calcA, lastChanged |-> p.lastChanged]
             ELSE [field |-> None, value |-> <<>>, lastChanged |-> p.lastChanged]
    ELSE [field |-> None, value |-> <<>>, lastChanged |-> p.lastChanged]

\* largest number of writes that is counted
MaxWrites == 2

\* the auto-calculate effect of AddLiquidityModal runs and sets an amount
AutoCalculate ==
    /\ env.kind = "ratio"
    /\ AutoCalc(pool).field # None
    /\ LET w == AutoCalc(pool)
       IN  pool' = [pool EXCEPT !.amountA = IF w.field = "a" THEN w.value ELSE @,
                                !.amountB = IF w.field = "b" THEN w.value ELSE @,
                                !.lastChanged = w.lastChanged,
                                !.autoWrote = w.field,
                                !.writes = IF @ < MaxWrites THEN @ + 1 ELSE @]
    /\ UNCHANGED <<env, hook, call, hist, flow, liq, modal, adding>>

RatioInit ==
    /\ env \in RatioEnvs
    /\ hook = HookInit("ratio")
    /\ call = IdleCall
    /\ hist = NewHist(0)
    /\ flow = NoFlow
    /\ pool = PoolMounted
    /\ liq = NoLiq
    /\ modal = NoModal
    /\ adding = NoAdding

RatioNext ==
    \/ PoolRefetch \/ FetchFound \/ FetchNotFound \/ FetchFails
    \/ handleAmountAChange \/ handleAmountBChange
    \/ handleSelectTokenA \/ handleSelectTokenB \/ ToggleLock
    \/ AutoCalculate

RatioSpec == RatioInit /\ [][RatioNext]_vars

\* ------------------------------------------------------------------------
\* useAddLiquidity, useRemoveLiquidity and RemoveLiquidityModal: one call
\* ------------------------------------------------------------------------

MsgInvalidAmounts  == <<"Invalid", "amounts">>
MsgInvalidLpAmount == <<"Invalid", "LP", "amount">>
\* what parseUnits throws for a string that is not a decimal number
MsgInvalidDecimal  == <<"Invalid", "decimal", "number">>

\* `token.address === NATIVE_ADDRESS || token.isNative`
IsTokenNative(symbol) == Token(symbol).address = NATIVE_ADDRESS \/ Token(symbol).isNative

\* (amount * BigInt(100 - slippage)) / 100n
WithSlippage(amount, slippage) == BigDiv(BigMul(amount, 100 - slippage), 100)

\* (gasEstimate * 120n) / 100n
LiquidityGas(gasEstimate) == (gasEstimate * 120) \div 100

\* the router call of addLiquidity that takes tokenA for the native side
\* whenever one of the two tokens is native
AddLiquidityCallNativeA(l) ==
    LET amountAWei == ParseUnits(l.amountA, TokenDecimals(l.tokenA)).mag
        amountBWei == ParseUnits(l.amountB, TokenDecimals(l.tokenB)).mag
    IN  IF IsTokenNative(l.tokenA) \/ IsTokenNative(l.tokenB)
        THEN [ fn |-> "addLiquidityETH",
               tokens |-> <<Token(l.tokenB).address>>,
               amounts |-> <<amountBWei, WithSlippage(amountBWei, l.slippage),
                             WithSlippage(amountAWei, l.slippage)>>,
               value |-> amountAWei, gas |-> NoNum ]
        ELSE [ fn |-> "addLiquidity",
               tokens |-> <<Token(l.tokenA).address, Token(l.tokenB).address>>,
               amounts |-> <<amountAWei, amountBWei, WithSlippage(amountAWei, l.slippage),
                             WithSlippage(amountBWei, l.slippage)>>,
               value |-> NoBig, gas |-> NoNum ]

\* the router call addLiquidity of useAddLiquidity makes, before the gas limit is known
AddLiquidityCall(l) ==
    LET amountAWei == ParseUnits(l.amountA, TokenDecimals(l.tokenA)).mag
        amountBWei == ParseUnits(l.amountB, TokenDecimals(l.tokenB)).mag
        isTokenANative == IsTokenNative(l.tokenA)
        isTokenBNative == IsTokenNative(l.tokenB)
        nativeAmount == IF isTokenANative THEN amountAWei ELSE amountBWei
        tokenAmount  == IF isTokenANative THEN amountBWei ELSE amountAWei
        tokenAddress == IF isTokenANative THEN Token(l.tokenB).address
                        ELSE Token(l.tokenA).address
    IN  IF isTokenANative \/ isTokenBNative
        THEN [ fn |-> "addLiquidityETH",
               tokens |-> <<tokenAddress>>,
               amounts |-> <<tokenAmount, WithSlippage(tokenAmount, l.slippage),
                             WithSlippage(nativeAmount, l.slippage)>>,
               value |-> nativeAmount, gas |-> NoNum ]
        ELSE [ fn |-> "addLiquidity",
               tokens |-> <<Token(l.tokenA).address, Token(l.tokenB).address>>,
               amounts |-> <<amountAWei, amountBWei, WithSlippage(amountAWei, l.slippage),
                             WithSlippage(amountBWei, l.slippage)>>,
               value |-> NoBig, gas |-> NoNum ]

\* the router call removeLiquidity of useRemoveLiquidity makes
RemoveLiquidityCall(l) ==
    LET minOut0 == WithSlippage(l.minAmount0, l.slippage)
        minOut1 == WithSlippage(l.minAmount1, l.slippage)
        isToken0WMON == ToLowerCase(l.token0) = ToLowerCase(WMON)
    IN  IF l.hasWMON
        THEN [ fn |-> "removeLiquidityETH",
               tokens |-> <<IF isToken0WMON THEN l.token1 ELSE l.token0>>,
               amounts |-> <<l.lpAmount, IF isToken0WMON THEN minOut1 ELSE minOut0,
                             IF isToken0WMON THEN minOut0 ELSE minOut1>>,
               value |-> NoBig, gas |-> NoNum ]
        ELSE [ fn |-> "removeLiquidity",
               tokens |-> <<l.token0, l.token1>>,
               amounts |-> <<l.lpAmount, minOut0, minOut1>>,
               value |-> NoBig, gas |-> NoNum ]

\* the router call removeLiquidity of RemoveLiquidityModal makes; lpAmount is
\* lpToRemoveWei, token0 and token1 the ids of the position's pair, minAmount0
\* and minAmount1 the amounts of the two tokens in wei before slippage
ModalRemoveLiquidityCall(l) ==
    LET isToken0WMON == ToLowerCase(l.token0) = ToLowerCase(WMON)
        isToken1WMON == ToLowerCase(l.token1) = ToLowerCase(WMON)
    IN  RemoveLiquidityCall([l EXCEPT !.hasWMON = isToken0WMON \/ isToken1WMON])

\* amount strings passed to addLiquidity: "", "0", "-1", "1", "2", "1e3"
LiquidityAmounts ==
    { <<>>, <<"0">>, <<"-", "1">>, <<"1">>, <<"2">>, <<"1", "e", "3">> }

\* tokens the hooks are used with
LiquidityTokens == {"MON", "WMON", "QUICK", "IMP"}

\* slippage percentages
Slippages == {10}

\* the pairs (token0, token1) removeLiquidity is called for: ids as the
\* indexer gives them and as the configuration writes them
PairTokens ==
    { <<ToLowerCase(WMON), QUICK>>, <<WMON, ToLowerCase(QUICK)>>,
      <<ToLowerCase(IMPORTED), ToLowerCase(WMON)>>, <<IMPORTED, WMON>>,
      <<ToLowerCase(IMPORTED), ToLowerCase(QUICK)>> }

\* gas estimates the node answers with
LiquidityGasEstimates == {100001}

LiqStarts ==
    { [NoLiq EXCEPT !.op = "addLiquidity", !.connected = c, !.slippage = s,
                    !.tokenA = a, !.tokenB = b, !.amountA = x, !.amountB = y] :
        c \in BOOLEAN, s \in Slippages, a \in LiquidityTokens, b \in LiquidityTokens,
        x \in LiquidityAmounts, y \in {<<>>, <<"0">>, <<"1">>} }
    \cup
    { [NoLiq EXCEPT !.op = o, !.connected = c, !.slippage = s, !.lpAmount = lp,
                    !.token0 = t[1], !.token1 = t[2],
                    !.minAmount0 = Units(<<"1">>), !.minAmount1 = Units(<<"2">>),
                    !.hasWMON = h] :
        o \in {"removeLiquidity", "modalRemoveLiquidity"}, c \in BOOLEAN, s \in Slippages,
        lp \in {BigZero, Units(<<"1">>)}, t \in PairTokens, h \in BOOLEAN }

LiqStep(l) ==
    /\ liq' = l
    /\ UNCHANGED <<env, hook, call, hist, flow, pool, modal, adding>>

\* useAddLiquidity.addLiquidity up to its first await
addLiquidity ==
    /\ liq.op = "addLiquidity" /\ liq.pc = "idle"
    /\ LiqStep(
         IF ~liq.connected
         THEN [liq EXCEPT !.pc = "thrown", !.thrown = MsgNotConnected]
         ELSE IF \/ liq.amountA = <<>> \/ liq.amountB = <<>>
                 \/ ParseFloat(liq.amountA) \in {"neg", "zero"}
                 \/ ParseFloat(liq.amountB) \in {"neg", "zero"}
         THEN [liq EXCEPT !.pc = "thrown", !.thrown = MsgInvalidAmounts]
         ELSE IF \/ ~ParseUnits(liq.amountA, TokenDecimals(liq.tokenA)).ok
                 \/ ~ParseUnits(liq.amountB, TokenDecimals(liq.tokenB)).ok
         THEN [liq EXCEPT !.pc = "thrown", !.thrown = MsgInvalidDecimal]
         ELSE [liq EXCEPT !.pc = "estimating", !.estimate = AddLiquidityCall(liq)])

\* useRemoveLiquidity.removeLiquidity up to its first await
removeLiquidity ==
    /\ liq.op = "removeLiquidity" /\ liq.pc = "idle"
    /\ LiqStep(
         IF ~liq.connected
         THEN [liq EXCEPT !.pc = "thrown", !.thrown = MsgNotConnected]
         ELSE IF liq.lpAmount = BigZero
         THEN [liq EXCEPT !.pc = "thrown", !.thrown = MsgInvalidLpAmount]
         ELSE [liq EXCEPT !.pc = "estimating", !.estimate = RemoveLiquidityCall(liq)])

\* RemoveLiquidityModal.removeLiquidity up to its first await
ModalRemoveLiquidity ==
    /\ liq.op = "modalRemoveLiquidity" /\ liq.pc = "idle"
    /\ LiqStep(
         IF ~liq.connected \/ liq.lpAmount = BigZero
         THEN [liq EXCEPT !.pc = "done"]
         ELSE [liq EXCEPT !.pc = "estimating", !.estimate = ModalRemoveLiquidityCall(liq)])

\* estimateContractGas resolves: writeContract with the buffered gas limit
EstimateResolves ==
    /\ liq.pc = "estimating"
    /\ \E g \in LiquidityGasEstimates :
          LiqStep([liq EXCEPT !.pc = "done",
                              !.tx = [liq.estimate EXCEPT !.gas = LiquidityGas(g)]])

\* estimateContractGas throws: the hooks call writeContract without a gas
\* limit, the modal logs the error and goes back to its input step
EstimateThrows ==
    /\ liq.pc = "estimating"
    /\ LiqStep([liq EXCEPT !.pc = "done",
                           !.tx = IF liq.op = "modalRemoveLiquidity" THEN NoRouterCall
                                  ELSE liq.estimate])

LiqInit ==
    /\ env = [kind |-> "liquidity", reads |-> "steady"]
    /\ hook = HookInit("liquidity")
    /\ call = IdleCall
    /\ hist = NewHist(0)
    /\ flow = NoFlow
    /\ pool = NoPool
    /\ liq \in LiqStarts
    /\ modal = NoModal
    /\ adding = NoAdding

LiqNext ==
    addLiquidity \/ removeLiquidity \/ ModalRemoveLiquidity \/ EstimateResolves \/ EstimateThrows

LiqSpec == LiqInit /\ [][LiqNext]_vars

\* ------------------------------------------------------------------------
\* StakeModal: the submit button and the useStake calls it starts.  The
\* wallet is connected.  A call is followed from the click to the end of its
\* prologue (the pool verification, the flag, the conversion and the checks);
\* what follows, the attempts of the retry loop or the single attempt of
\* approve, is taken as one step that ends the call with or without success.
\* ------------------------------------------------------------------------

\* the number of clicks on the submit button that are followed
MaxClicks == 2

ModalEnv == [kind |-> "StakeModal", reads |-> "steady"]

\* what the user types into the amount field
ModalAmounts == { <<>>, <<"1">>, <<"2">> }

\* the lpBalance and stakedAmount props of the modal
ModalLpBalance == <<"1">>
ModalStakedAmount == <<"1">>

maxAmount(m) == IF m.mode = "stake" THEN ModalLpBalance ELSE ModalStakedAmount

\* validateAmount(): the message it returns, None for null
validateAmount(m) ==
    IF m.amount = <<>> THEN <<"Enter", "an", "amount">>
    ELSE IF ParseFloat(m.amount) # "pos"
    THEN <<"Amount", "must", "be", "greater", "than", "0">>
    ELSE IF RatLess(ParseFloatValue(maxAmount(m)), ParseFloatValue(m.amount))
    THEN <<"Insufficient", "balance">>
    ELSE None

isLoading(h) == h.isProcessing \/ h.isApproving

\* isLoading || (!!validationError && amount !== '')
isDisabled(h, m) ==
    \/ isLoading(h)
    \/ validateAmount(m) # None /\ m.amount # <<>>

\* useStake.needsApproval(amount)
needsApproval(h, amount) ==
    IF amount = <<>> \/ ~Truthy(h.allowance) THEN TRUE
    ELSE LET pu == ParseUnits(amount, Decimals)
         IN  IF pu.ok THEN BigLess(h.allowance, pu.mag) ELSE TRUE

requiresApproval(h, m) == m.mode = "stake" /\ needsApproval(h, m.amount)

\* the hook with the frame of one call, as the prologue functions take it
ModalState(h, c) == [hook |-> h, call |-> c, hist |-> NewHist(0)]

ModalFrame(op, amount) ==
    [IdleCall EXCEPT !.op = op, !.amount = amount, !.retries = DefaultRetries]

\* stake(amount) up to its first await or its return
ModalStake(h, amount, fresh) ==
    LET cVerified == IF fresh THEN h.poolVerified ELSE FALSE
        c == [ModalFrame("stake", amount) EXCEPT
                  !.cAllowance = h.allowance, !.cLpBalance = h.lpBalance,
                  !.cPoolError = IF fresh THEN h.poolError ELSE NoMsg]
        s == ModalState(h, c)
    IN  IF amount = <<>> \/ ParseFloat(amount) \in {"neg", "zero"}
        THEN Ret(s, Failure(MsgInvalidAmount))
        ELSE IF ~cVerified
        THEN [s EXCEPT !.call.pc = "poolLength", !.hook.poolError = NoMsg]
        ELSE StakeAfterVerify(s)

\* unstake(amount) up to its first await or its return
ModalUnstake(h, amount) ==
    LET s0 == ModalState(h, ModalFrame("unstake", amount))
        s1 == [s0 EXCEPT !.hook.isProcessing = TRUE, !.hook.txError = NoMsg,
                         !.hook.isSuccess = FALSE]
        pu == ParseUnits(amount, Decimals)
    IN  IF amount = <<>> \/ ParseFloat(amount) \in {"neg", "zero"}
        THEN Ret(s0, Failure(MsgInvalidAmount))
        ELSE IF ~pu.ok THEN Ret(s1, Rejected)
        ELSE EnterLoop([s1 EXCEPT !.call.amountWei = pu.mag])

\* approve() up to its first await
ModalApprove(h) ==
    [ModalState(h, ModalFrame("approve", <<>>)) EXCEPT
         !.hook.isApproving = TRUE, !.hook.txError = NoMsg, !.hook.isSuccess = FALSE,
         !.call.amountWei = MaxUint256, !.call.attempt = 1, !.call.pc = "nonce"]

\* the calls in progress with the call of s added, when it has not returned
WithCall(calls, s) == IF s.call.pc = "idle" THEN calls ELSE Append(calls, s.call)

\* the calls in progress with call i replaced by the call of s, or removed
\* when it has returned
WithCallAt(calls, i, s) ==
    SubSeq(calls, 1, i - 1) \o WithCall(<<>>, s) \o SubSeq(calls, i + 1, Len(calls))

\* a click on the submit button: handleSubmit, with handleApprove, handleStake
\* or handleUnstake up to the first await of the hook call
handleSubmit(fresh) ==
    /\ modal.mode # None
    /\ modal.clicks < MaxClicks
    /\ ~isDisabled(hook, modal)
    /\ LET idle == ModalState(hook, IdleCall)
           s == IF modal.mode = "stake"
                THEN IF requiresApproval(hook, modal) THEN ModalApprove(hook)
                     ELSE IF validateAmount(modal) # None THEN idle
                     ELSE ModalStake(hook, modal.amount, fresh)
                ELSE IF validateAmount(modal) # None THEN idle
                     ELSE ModalUnstake(hook, modal.amount)
       IN  /\ hook' = s.hook
           /\ modal' = [modal EXCEPT !.calls = WithCall(@, s), !.clicks = @ + 1]
    /\ UNCHANGED <<env, call, hist, flow, pool, liq, adding>>

\* the poolLength read of the verifyPool() that stake call i awaits resolves
ModalPoolLength(i, resp) ==
    /\ i \in DOMAIN modal.calls
    /\ modal.calls[i].pc = "poolLength"
    /\ LET v == VerifyPoolLength(hook, resp)
           s == ModalState(v.hook, modal.calls[i])
       IN  /\ hook' = v.hook
           /\ modal' = [modal EXCEPT !.calls =
                            WithCallAt(@, i, IF v.cont THEN [s EXCEPT !.call.pc = "poolInfo"]
                                             ELSE StakeVerifyFailed(s))]
    /\ UNCHANGED <<env, call, hist, flow, pool, liq, adding>>

\* its poolInfo read resolves, and stake goes on to its first attempt
ModalPoolInfo(i, resp) ==
    /\ i \in DOMAIN modal.calls
    /\ modal.calls[i].pc = "poolInfo"
    /\ LET v == VerifyPoolInfo(hook, resp)
           s == ModalState(v.hook, modal.calls[i])
           t == IF v.cont THEN StakeAfterVerify(s) ELSE StakeVerifyFailed(s)
       IN  /\ hook' = t.hook
           /\ modal' = [modal EXCEPT !.calls = WithCallAt(@, i, t)]
    /\ UNCHANGED <<env, call, hist, flow, pool, liq, adding>>

\* call i, in its attempts, ends: with a confirmed transaction (ok) or with
\* the failure of its last attempt
ModalCallEnds(i, ok) ==
    /\ i \in DOMAIN modal.calls
    /\ modal.calls[i].pc = "nonce"
    /\ LET op == modal.calls[i].op
           h1 == IF op = "approve" THEN [hook EXCEPT !.isApproving = FALSE]
                 ELSE [hook EXCEPT !.isProcessing = FALSE]
       IN  hook' = IF ok
                   THEN [h1 EXCEPT !.isSuccess = TRUE,
                                   !.allowance = IF op = "approve" THEN MaxUint256 ELSE @]
                   ELSE [h1 EXCEPT !.txError = DefaultMsg(op)]
    /\ modal' = [modal EXCEPT !.calls = WithCallAt(@, i, ModalState(hook, IdleCall))]
    /\ UNCHANGED <<env, call, hist, flow, pool, liq, adding>>

\* the user edits the amount field
setAmount(a) ==
    /\ modal.mode # None
    /\ a # modal.amount
    /\ modal' = [modal EXCEPT !.amount = a]
    /\ UNCHANGED <<env, hook, call, hist, flow, pool, liq, adding>>

\* the user switches the tab; the effect on mode clears the amount
setMode(mode) ==
    /\ modal.mode \notin {None, mode}
    /\ modal' = [modal EXCEPT !.mode = mode, !.amount = <<>>]
    /\ UNCHANGED <<env, hook, call, hist, flow, pool, liq, adding>>

ModalInit ==
    /\ env = ModalEnv
    /\ \E a \in {BigZero, MaxUint256} :
           hook = [HookInit("useStake") EXCEPT !.allowance = a, !.lpBalance = Units(<<"1">>)]
    /\ call = IdleCall
    /\ hist = NewHist(0)
    /\ flow = NoFlow
    /\ pool = NoPool
    /\ liq = NoLiq
    /\ modal = [NoModal EXCEPT !.mode = "stake"]
    /\ adding = NoAdding

ModalNext ==
    \/ \E r1 \in PoolLengthResponses, r2 \in PoolInfoResponses : MountVerifyPool(r1, r2)
    \/ \E f \in BOOLEAN : handleSubmit(f)
    \/ \E i \in 1..MaxClicks, r \in PoolLengthResponses : ModalPoolLength(i, r)
    \/ \E i \in 1..MaxClicks, r \in PoolInfoResponses : ModalPoolInfo(i, r)
    \/ \E i \in 1..MaxClicks, ok \in BOOLEAN : ModalCallEnds(i, ok)
    \/ \E a \in ModalAmounts : setAmount(a)
    \/ \E m \in {"stake", "unstake"} : setMode(m)

ModalSpec == ModalInit /\ [][ModalNext]_vars

\* ------------------------------------------------------------------------
\* AddLiquidityModal: its approve and add steps.  The wallet is connected and
\* the amounts are typed in manual mode.  One useWriteContract instance
\* carries the approvals and the addLiquidity call; its hash is the hash of
\* the call handed to writeContract last, so isPending, isConfirming and
\* isSuccess speak about that call.
\* ------------------------------------------------------------------------

AddEnv == [kind |-> "AddLiquidityModal", reads |-> "steady"]

\* parseUnits('999999999', decimals), for an 18-decimal token
ModalApprovalAmount == Units(<<"9", "9", "9", "9", "9", "9", "9", "9", "9">>)

\* the amounts typed into a field
AddAmounts == { <<"1">>, <<"2">> }

\* the pairs selected when the modal is followed
AddPairs == { <<"MON", "QUICK">>, <<"WMON", "QUICK">> }

\* amtAWei, amtBWei
amtWei(amount, token) ==
    IF amount # <<>> /\ ParseFloat(amount) = "pos"
    THEN ParseUnits(amount, TokenDecimals(token)).mag ELSE BigZero

\* needsApproveA, needsApproveB
needsApprove(token, allow, amount) ==
    /\ ~Token(token).isNative
    /\ allow # NoBig
    /\ BigLess(BigZero, amtWei(amount, token))
    /\ BigLess(allow, amtWei(amount, token))

needsApproveA(d) == needsApprove(d.tokenA, d.allowA, d.amountA)
needsApproveB(d) == needsApprove(d.tokenB, d.allowB, d.amountB)

canAdd(d) ==
    /\ d.amountA # <<>> /\ d.amountB # <<>>
    /\ ParseFloat(d.amountA) = "pos" /\ ParseFloat(d.amountB) = "pos"
    /\ ~needsApproveA(d) /\ ~needsApproveB(d)

isPending(d)    == d.status = "pending"
isConfirming(d) == d.status = "confirming"
isSuccess(d)    == d.status = "success"

\* the success effect, run after a render in which isSuccess or step changed:
\* it schedules the delayed callback of the step it sees
SuccessEffect(old, new) ==
    IF /\ isSuccess(new)
       /\ new.step \in {"approveA", "approveB", "add"}
       /\ ~isSuccess(old) \/ old.step # new.step
    THEN [new EXCEPT !.timers = @ \cup {new.step}]
    ELSE new

AddStep(d) ==
    /\ adding' = SuccessEffect(adding, d)
    /\ UNCHANGED <<env, hook, call, hist, flow, pool, liq, modal>>

\* the modal is mounted, not closed, and no button of it is disabled
ButtonsEnabled ==
    /\ adding.step # None
    /\ ~adding.completed
    /\ ~isPending(adding) /\ ~isConfirming(adding)

\* click on 'Approve <tokenA>'
approveA ==
    /\ ButtonsEnabled
    /\ needsApproveA(adding)
    /\ AddStep([adding EXCEPT !.step = "approveA", !.tx = "approveA", !.status = "pending"])

\* click on 'Approve <tokenB>'
approveB ==
    /\ ButtonsEnabled
    /\ ~needsApproveA(adding) /\ needsApproveB(adding)
    /\ AddStep([adding EXCEPT !.step = "approveB", !.tx = "approveB", !.status = "pending"])

\* click on 'Add Liquidity': addLiquidity up to its await
ModalAddLiquidity ==
    /\ ButtonsEnabled
    /\ ~needsApproveA(adding) /\ ~needsApproveB(adding)
    /\ canAdd(adding)
    /\ AddStep([adding EXCEPT !.step = "add", !.estimating = TRUE])

\* estimateContractGas resolves: writeContract is called with the add call
AddEstimateResolves ==
    /\ adding.estimating /\ ~adding.completed
    /\ AddStep([adding EXCEPT !.estimating = FALSE, !.tx = "add", !.status = "pending"])

\* estimateContractGas throws: the catch block of addLiquidity
AddEstimateThrows ==
    /\ adding.estimating /\ ~adding.completed
    /\ AddStep([adding EXCEPT !.estimating = FALSE, !.step = "input"])

\* the wallet returns the hash of the call
WalletSubmits ==
    /\ isPending(adding) /\ ~adding.completed
    /\ AddStep([adding EXCEPT !.status = "confirming"])

\* the wallet rejects the call
WalletRejects ==
    /\ isPending(adding) /\ ~adding.completed
    /\ AddStep([adding EXCEPT !.status = "failed"])

\* the receipt of the call's transaction arrives
ReceiptArrives ==
    /\ isConfirming(adding) /\ ~adding.completed
    /\ AddStep([adding EXCEPT !.status = "success",
                              !.chainA = IF adding.tx = "approveA" THEN ModalApprovalAmount
                                         ELSE @,
                              !.chainB = IF adding.tx = "approveB" THEN ModalApprovalAmount
                                         ELSE @,
                              !.addConfirmed = @ \/ adding.tx = "add"])

\* a delayed callback of the success effect runs, 2 s after it was scheduled
TimerFires(t) ==
    /\ t \in adding.timers /\ ~adding.completed
    /\ LET d == [adding EXCEPT !.timers = @ \ {t}]
           under == d.estimating \/ (d.tx = "add" /\ d.status \in {"pending", "confirming"})
       IN  AddStep(IF t = "add" THEN [d EXCEPT !.completed = TRUE]
                   ELSE [d EXCEPT !.allowA = IF t = "approveA" THEN d.chainA ELSE @,
                                  !.allowB = IF t = "approveB" THEN d.chainB ELSE @,
                                  !.tx = None, !.status = "idle",
                                  !.step = "input",
                                  !.addReset = @ \/ under])

\* the user types an amount into field A / field B
AddAmountA(value) ==
    /\ adding.step # None /\ ~adding.completed
    /\ value # adding.amountA
    /\ AddStep([adding EXCEPT !.amountA = value])

AddAmountB(value) ==
    /\ adding.step # None /\ ~adding.completed
    /\ value # adding.amountB
    /\ AddStep([adding EXCEPT !.amountB = value])

AddInit ==
    /\ env = AddEnv
    /\ hook = HookInit("liquidity")
    /\ call = IdleCall
    /\ hist = NewHist(0)
    /\ flow = NoFlow
    /\ pool = NoPool
    /\ liq = NoLiq
    /\ modal = NoModal
    /\ \E pair \in AddPairs :
          LET a == IF Token(pair[1]).isNative THEN NoBig ELSE Units(<<"1">>)
          IN  adding = [NoAdding EXCEPT !.step = "input",
                                        !.tokenA = pair[1], !.tokenB = pair[2],
                                        !.amountA = <<"2">>, !.amountB = <<"2">>,
                                        !.allowA = a, !.chainA = a,
                                        !.allowB = Units(<<"1">>), !.chainB = Units(<<"1">>)]

AddNext ==
    \/ approveA
    \/ approveB
    \/ ModalAddLiquidity
    \/ AddEstimateResolves
    \/ AddEstimateThrows
    \/ WalletSubmits
    \/ WalletRejects
    \/ ReceiptArrives
    \/ \E t \in {"approveA", "approveB", "add"} : TimerFires(t)
    \/ \E v \in AddAmounts : AddAmountA(v)
    \/ \E v \in AddAmounts : AddAmountB(v)

AddSpec == AddInit /\ [][AddNext]_vars

TypeOK ==
    /\ env \in Envs \cup RatioEnvs \cup {LateEnv, VerifyEnv, ModalEnv, AddEnv}
                  \cup {[kind |-> k, reads |-> "steady"] : k \in {"flows", "liquidity"}}
    /\ hook.kind \in {"useStake", "useHarvest", "flows", "ratio", "liquidity"}
    /\ flow.step \in {"input", "approving", "confirmed", "reread"}
    /\ hook.isProcessing \in BOOLEAN
    /\ hook.isApproving \in BOOLEAN
    /\ hook.isSuccess \in BOOLEAN
    /\ call.pc \in {"idle", "poolLength", "poolInfo", "nonce", "gas", "gasPrice", "write",
                    "receipt", "sleep", "backoff", "extraWait", "refetch"}
    /\ call.op \in RetryOps \cup SingleOps \cup {None}
    /\ hist.calls \in 0..MaxCalls

\* ------------------------------------------------------------------------
\* Properties
\* ------------------------------------------------------------------------

Returned == call.pc = "idle" /\ hist.result.kind = "returned"

\* the backoff waits of the current call, in order
Waits == SelectSeq(hist.events, LAMBDA e : e # 0)

RECURSIVE Pow2(_)
Pow2(n) == IF n = 0 THEN 1 ELSE 2 * Pow2(n - 1)

Max0(n) == IF n > 0 THEN n ELSE 0

\* C1 - Bounded retry: during one call of stake, unstake or harvest at most
\* `retries` transactions are handed to the wallet; with retries <= 0 none is
\* and what the call returns has success = false.
C1_BoundedRetry ==
    hist.op \in RetryOps =>
        /\ hist.sent <= Max0(hist.retries)
        /\ hist.retries <= 0 => /\ hist.sent = 0
                                /\ call.pc = "idle"
                                /\ hist.result.kind # "none"
                                /\ hist.result.success = FALSE

\* a call that used all of its three attempts
C1_Witness ==
    /\ hist.op \in RetryOps
    /\ hist.retries = 3
    /\ hist.sent = 3
    /\ Returned

ContainsRetryWord(msg) ==
    \E i \in 1..Len(msg) : msg[i] \in {"dropped", "replaced", "nonce"}

\* C2 - Retry decision on a thrown error: when an attempt of stake, unstake or
\* harvest throws, the message (shortMessage, else message, else the fallback)
\* decides: with 'dropped', 'replaced' or 'nonce' in it the call waits and
\* makes another attempt exactly when attempts remain; with any other message
\* it returns { success: false, error: message } at once, having stored the
\* message in the error state, and hands nothing more to the wallet.
C2_RetryDecision ==
    [][ /\ (hist'.thrown # NoMsg /\ hist'.op \in RetryOps) =>
              IF ContainsRetryWord(hist'.thrown)
              THEN /\ call'.pc = "backoff"
                   /\ call'.lastError = hist'.thrown
              ELSE /\ call'.pc = "idle"
                   /\ hist'.result = Failure(hist'.thrown)
                   /\ hook'.txError = hist'.thrown
        /\ call.pc = "backoff" =>
              IF call.attempt < call.retries
              THEN /\ call'.pc = "nonce"
                   /\ call'.attempt = call.attempt + 1
                   /\ hist'.sent = hist.sent
              ELSE /\ call'.pc = "idle"
                   /\ hist'.result = Failure(call.lastError)
                   /\ hook'.txError = call.lastError
                   /\ hist'.sent = hist.sent
      ]_vars

\* a call gave up on an error that is not a drop, a replacement or a nonce
\* error, after it had retried once
C2_Witness ==
    /\ hist.op \in RetryOps
    /\ hist.thrown = <<"insufficient", "funds">>
    /\ Len(Waits) >= 1
    /\ Returned

C4_SuccessMeansConfirmed ==
    /\ [](hist.result.success =>
             /\ hist.result.hash # NoHash
             /\ hist.result.hash = hist.confirmed
             /\ hist.result.hash[1] = hist.calls
             /\ hook.txHash = hist.result.hash \/ call.pc # "idle" \/ hook.txHash = NoHash)
    /\ [][ (hook'.isSuccess /\ ~hook.isSuccess) =>
              /\ hist'.confirmed # NoHash
              /\ hist'.confirmed[1] = hist'.calls
              /\ hist'.result = Success(hist'.confirmed) ]_vars

\* the second call of a behaviour succeeded with its second transaction
C4_Witness ==
    /\ Returned
    /\ hist.result.success
    /\ hist.result.hash = <<2, 2>>
    /\ hook.isSuccess

\* the allowance is missing, zero or smaller than the amount in wei
MissingZeroOrSmaller(allowance, amount) ==
    \/ allowance = NoBig
    \/ allowance = BigZero
    \/ ParseUnits(amount, 18).ok /\ BigLess(allowance, ParseUnits(amount, 18).mag)

\* the checks stake makes before the allowance check all pass: the wallet is
\* connected, the amount is positive, the pool is verified, the amount
\* converts to wei and does not exceed a known non-zero LP balance
ChecksBeforeAllowancePass ==
    /\ hist.start.connected
    /\ hist.start.amount # <<>>
    /\ ParseFloat(hist.start.amount) \notin {"neg", "zero"}
    /\ hist.start.verified
    /\ ParseUnits(hist.start.amount, 18).ok
    /\ ~ (/\ hist.start.lpBalance \notin {NoBig, BigZero}
          /\ BigLess(hist.start.lpBalance, ParseUnits(hist.start.amount, 18).mag))

C6_ApprovalConverges ==
    flow.step = "reread" => ~NeedsApproval(flow)

\* C7 - Backoff schedule: the k-th backoff wait of a call lasts
\* 3000 * 2^(k-1) ms, in every call.
C7_BackoffSchedule ==
    \A k \in 1..Len(Waits) : Waits[k] = 3000 * Pow2(k - 1)

\* the second call of a behaviour waited 3000, 6000 and 12000 ms
C7_Witness ==
    /\ hist.calls = 2
    /\ Waits = <<3000, 6000, 12000>>

\* C8 - Backoff waits sit exactly between attempts: every attempt after the
\* first is preceded by a backoff wait since the previous attempt ended, and
\* no backoff wait is performed once no attempt remains.
C8_BackoffBetweenAttempts ==
    hist.op \in RetryOps =>
        /\ \A i \in 2..Len(hist.events) : hist.events[i] = 0 => hist.events[i - 1] # 0
        /\ (call.pc = "idle" /\ hist.events # <<>>) => hist.events[Len(hist.events)] = 0

\* C9 - Fresh nonce per attempt: the nonce of every submitted transaction is
\* the pending transaction count read in the attempt that submits it.
C9_FreshNonce ==
    hist.lastTx # NoTx =>
        /\ hist.lastTx.nonce = hist.lastTx.pendingRead
        /\ hist.lastTx.readAt = hist.lastTx.hash

\* a third attempt submitted with the pending count 1 while the latest is 0
C9_Witness ==
    /\ hist.lastTx # NoTx
    /\ hist.lastTx.hash[2] = 3
    /\ hist.lastTx.nonce = 1

C11_GasBuffer ==
    /\ [](hist.lastTx.fn \in {"approve", "deposit", "withdraw"} =>
             LET tx == hist.lastTx
             IN  IF tx.estimate = NoNum
                 THEN tx.gas = (IF hist.op = "harvest" THEN 300000 ELSE 500000)
                 ELSE /\ tx.gas = (IF hist.op = "harvest"
                                   THEN (tx.estimate * 150) \div 100
                                   ELSE (tx.estimate * 180) \div 100)
                      /\ tx.gas >= tx.estimate)
    /\ [][call.pc = "gas" => /\ call'.pc \in {"gasPrice", "write"}
                             /\ call'.gas > 0
                             /\ hist'.thrown = NoMsg]_vars

\* the third unstake transaction of a call was handed over with the limit
\* 59999 for the estimate 33333
C11_Witness ==
    /\ hist.lastTx.fn = "withdraw"
    /\ hist.lastTx.hash[2] = 3
    /\ hist.lastTx.estimate = 33333
    /\ hist.lastTx.gas = 59999

\* C12 - Gas-price premium: every transaction handed to the wallet carries
\* gasPrice = floor(currentGasPrice * 130 / 100), the current gas price being
\* read in the same attempt, hence never below the current gas price.
C12_GasPricePremium ==
    hist.lastTx # NoTx =>
        /\ hist.lastTx.priceRead # NoNum
        /\ hist.lastTx.priceAt = hist.lastTx.hash
        /\ hist.lastTx.gasPrice = (hist.lastTx.priceRead * 130) \div 100
        /\ hist.lastTx.gasPrice >= hist.lastTx.priceRead

\* C13 - Approval gate of the router flows: useApproval.needsApproval is false
\* for a native or undefined token and for an empty or non-positive amount,
\* otherwise it is true exactly when the allowance last read (0 when missing)
\* is strictly smaller than the amount in token units;
\* useLPApproval.needsApproval is true exactly when amount > 0 and
\* allowance < amount; approve() sends nothing for a native or undefined token.
C13_RouterApprovalGate ==
    /\ [](flow.name = "useApproval" =>
             NeedsApproval(flow) =
                 IF \/ flow.token \in {"native", "none"}
                    \/ flow.amount = <<>>
                    \/ ParseFloat(flow.amount) \in {"neg", "zero"}
                 THEN FALSE
                 ELSE BigLess(IF flow.allowance = NoBig THEN BigZero ELSE flow.allowance,
                              ParseUnits(flow.amount, flow.decimals).mag))
    /\ [](flow.name = "useLPApproval" =>
             NeedsApproval(flow) =
                 (/\ flow.lp # BigZero
                  /\ BigLess(IF flow.allowance = NoBig THEN BigZero ELSE flow.allowance,
                             flow.lp)))
    /\ [][(flow.name \in {"useApproval", "useLPApproval"} /\ flow.token \in {"native", "none"})
             => flow'.step = "input" /\ flow'.approveArg = NoBig]_vars

\* useApproval holds an allowance equal to the requested 999999999999 tokens
\* after its approval was confirmed and read again
C13_Witness ==
    /\ flow.name = "useApproval"
    /\ flow.step = "reread"
    /\ flow.decimals = 6
    /\ flow.allowance = ParseUnits(flow.amount, 6).mag
    /\ ~NeedsApproval(flow)

\* an amount string that denotes a positive number
IsPositiveAmount(x) == x # <<>> /\ ParseFloat(x) = "pos"

\* an empty amount string or one that denotes zero or a negative number
IsEmptyOrNonPositive(x) == x = <<>> \/ ParseFloat(x) \in {"zero", "neg"}

\* the hook holds a pair record whose reserves for tokenA and tokenB are both positive
BothReservesPositive(p) ==
    /\ p.reserves # NoReserves
    /\ ParseFloat(reserveA(p)) = "pos"
    /\ ParseFloat(reserveB(p)) = "pos"

\* C14 - 1:1 default for a nonexistent pool: while no pair record is held, or
\* the reserve of the input side is 0, calculateAmountB(x) and
\* calculateAmountA(x) return x unchanged for every positive amount x; both
\* return the empty string for an empty or non-positive input, whatever the
\* reserves are.
C14_OneToOneDefault ==
    \A x \in RatioAmounts :
        /\ IsEmptyOrNonPositive(x) =>
               /\ calculateAmountB(pool, x) = <<>>
               /\ calculateAmountA(pool, x) = <<>>
        /\ IsPositiveAmount(x) =>
               /\ (pool.reserves = NoReserves \/ ParseFloat(reserveA(pool)) # "pos")
                      => calculateAmountB(pool, x) = x
               /\ (pool.reserves = NoReserves \/ ParseFloat(reserveB(pool)) # "pos")
                      => calculateAmountA(pool, x) = x

\* with no pair record held the auto-calculation has copied the amount "1"
\* typed into field A to field B
C14_Witness ==
    /\ pool.reserves = NoReserves
    /\ ~pool.loading
    /\ pool.lastChanged = "a"
    /\ pool.amountA = <<"1">>
    /\ pool.autoWrote = "b"
    /\ pool.amountB = <<"1">>

LookupAddress(symbol) ==
    IF symbol = "MON" THEN ToLowerCase(WMON) ELSE ToLowerCase(Token(symbol).address)

\* the state usePoolRatio(a, b) is in when it holds the pair record rec
PoolRatioOf(a, b, rec) ==
    [fetchReserves([NoPool EXCEPT !.tokenA = a, !.tokenB = b]) EXCEPT !.reserves = rec]

C17_AutoRatioStabilises ==
    /\ [](pool.autoWrote # None =>
             /\ pool.isLocked
             /\ pool.lastChanged # None
             /\ pool.autoWrote # pool.lastChanged
             /\ AutoCalc(pool).field = None)
    /\ [](pool.writes <= 1)
    /\ [][pool'.autoWrote # None =>
             /\ pool'.lastChanged = pool.lastChanged
             /\ pool.lastChanged = "a" => pool'.amountA = pool.amountA /\ pool'.amountB # pool.amountB
             /\ pool.lastChanged = "b" => pool'.amountB = pool.amountB /\ pool'.amountA # pool.amountA]_vars

\* after the user typed 1 into field B, with reserves 3 : 1 held, the
\* auto-calculation has written 3.000000 to field A, once
C17_Witness ==
    /\ pool.lastChanged = "b"
    /\ pool.amountB = <<"1">>
    /\ pool.autoWrote = "a"
    /\ pool.amountA = <<"3", ".", "0", "0", "0", "0", "0", "0">>
    /\ pool.writes = 1
    /\ BothReservesPositive(pool)

\* the router calls made so far in the liquidity call followed: the one whose
\* gas was estimated and the one handed to the wallet
RouterCalls == {liq.estimate, liq.tx} \ {NoRouterCall}

\* C18 - Native routing when adding liquidity: addLiquidity of useAddLiquidity
\* calls addLiquidityETH exactly when tokenA or tokenB is native MON, with the
\* other token's address as token, the native side's amount in wei as value,
\* and the minimum of each side taken from that side's amount; otherwise it
\* calls addLiquidity with tokenA, tokenB, the two amounts and their minimums
\* and no value.  When the wallet is not connected or an amount is empty or
\* non-positive it throws and makes no call to the node or the wallet.
C18_NativeRoutingAdd ==
    liq.op = "addLiquidity" =>
        LET aNative == liq.tokenA = "MON"
            bNative == liq.tokenB = "MON"
            aWei    == ParseUnits(liq.amountA, TokenDecimals(liq.tokenA)).mag
            bWei    == ParseUnits(liq.amountB, TokenDecimals(liq.tokenB)).mag
            aMin    == BigDiv(BigMul(aWei, 100 - liq.slippage), 100)
            bMin    == BigDiv(BigMul(bWei, 100 - liq.slippage), 100)
            refused == \/ ~liq.connected
                       \/ IsEmptyOrNonPositive(liq.amountA)
                       \/ IsEmptyOrNonPositive(liq.amountB)
        IN  /\ refused => /\ RouterCalls = {}
                          /\ liq.pc \in {"idle", "thrown"}
            /\ liq.pc = "thrown" => liq.thrown # NoMsg /\ RouterCalls = {}
            /\ liq.pc = "done" => /\ liq.tx # NoRouterCall
                                  /\ liq.tx = [liq.estimate EXCEPT !.gas = liq.tx.gas]
            /\ \A c \in RouterCalls :
                  /\ c.fn = "addLiquidityETH" <=> (aNative \/ bNative)
                  /\ c.fn = "addLiquidityETH" =>
                        IF aNative
                        THEN /\ c.tokens = <<Token(liq.tokenB).address>>
                             /\ c.value = aWei
                             /\ c.amounts = <<bWei, bMin, aMin>>
                        ELSE /\ c.tokens = <<Token(liq.tokenA).address>>
                             /\ c.value = bWei
                             /\ c.amounts = <<aWei, aMin, bMin>>
                  /\ c.fn # "addLiquidityETH" =>
                        /\ c.fn = "addLiquidity"
                        /\ c.tokens = <<Token(liq.tokenA).address, Token(liq.tokenB).address>>
                        /\ c.amounts = <<aWei, bWei, aMin, bMin>>
                        /\ c.value = NoBig

\* addLiquidity('2', '1') for QUICK and native MON has handed addLiquidityETH
\* to the wallet with QUICK as token and 1 MON as value
C18_Witness ==
    /\ liq.op = "addLiquidity" /\ liq.pc = "done"
    /\ liq.tokenA = "QUICK" /\ liq.tokenB = "MON"
    /\ liq.amountA = <<"2">> /\ liq.amountB = <<"1">>
    /\ liq.tx.fn = "addLiquidityETH"
    /\ liq.tx.tokens = <<QUICK>>
    /\ liq.tx.value = Units(<<"1">>)
    /\ liq.tx.gas = 120001

\* C19 - Native routing when removing liquidity: removeLiquidity calls
\* removeLiquidityETH exactly when token0 or token1 of the pair is WMON, with
\* the other token as token, that token's minimum as the token minimum and
\* WMON's minimum as the native minimum; otherwise it calls removeLiquidity
\* with token0, token1 and their minimums in this order.
C19_NativeRoutingRemove ==
    liq.op \in {"removeLiquidity", "modalRemoveLiquidity"} =>
        LET wmon0 == ToLowerCase(liq.token0) = ToLowerCase(WMON)
            wmon1 == ToLowerCase(liq.token1) = ToLowerCase(WMON)
            min0  == BigDiv(BigMul(liq.minAmount0, 100 - liq.slippage), 100)
            min1  == BigDiv(BigMul(liq.minAmount1, 100 - liq.slippage), 100)
        IN  \A c \in RouterCalls :
               /\ c.fn = "removeLiquidityETH" <=> (wmon0 \/ wmon1)
               /\ c.fn = "removeLiquidityETH" =>
                     /\ c.tokens = <<IF wmon0 THEN liq.token1 ELSE liq.token0>>
                     /\ c.amounts = <<liq.lpAmount, IF wmon0 THEN min1 ELSE min0,
                                      IF wmon0 THEN min0 ELSE min1>>
               /\ c.fn # "removeLiquidityETH" =>
                     /\ c.fn = "removeLiquidity"
                     /\ c.tokens = <<liq.token0, liq.token1>>
                     /\ c.amounts = <<liq.lpAmount, min0, min1>>

\* the deposit / withdraw transactions of the call that were included with success
ConfirmedTransfers ==
    { t \in hist.chain : t.fn \in {"deposit", "withdraw"} /\ t.status = "success" }

\* C20 - At most one confirmed deposit per call: of the deposit transactions
\* a stake call hands to the wallet (the withdraw transactions of an unstake
\* call) at most one is ever included with success, whenever the inclusions
\* happen.
C20_AtMostOneConfirmed == Cardinality(ConfirmedTransfers) <= 1

\* C21 - A reverted transaction is not re-submitted: when the receipt of a
\* transaction submitted by stake, unstake or harvest reports a non-success
\* status, the call has returned success: false and starts no further attempt;
\* an attempt that follows a submitted transaction follows a wait that ended
\* at the timeout without a receipt.
C21_RevertedNotResubmitted ==
    /\ (hist.op \in RetryOps /\ hist.lastLookup = "reverted") =>
           (Returned /\ ~hist.result.success)
    /\ (hist.op \in RetryOps /\ hist.lastWait # NoWait /\ call.pc = "nonce") =>
           /\ hist.lastWait.receipt = None
           /\ hist.lastWait.endedAt >= TimeoutOf(hist.op)

\* the answers of the last verifyPool run describe a pool that exists and has
\* an LP token
SeenPoolUsable ==
    /\ ~hook.poolSeen.threw
    /\ hook.poolSeen.poolLength # NoNum
    /\ Pid < hook.poolSeen.poolLength
    /\ hook.poolSeen.lpToken \notin {None, "zero"}

\* the errors stake returns when the pool verification fails
PoolErrors == {MsgPoolFailed, MsgPoolMissing, MsgPoolZeroLp, MsgVerifyFailed(ReadError)}

\* C22 - Pool-verification gate: a stake call hands a deposit to the wallet
\* only when the last verification read a poolLength above the pid and a
\* non-zero LP token and no read threw; a call whose verification read such
\* answers is not refused for the pool, whatever the LP token and the
\* allocation points are otherwise.
C22_PoolVerificationGate ==
    /\ (hist.op = "stake" /\ hist.sent > 0) => (SeenPoolUsable /\ hook.poolVerified)
    /\ (hist.op = "stake" /\ hist.result.error \in PoolErrors) => ~SeenPoolUsable

\* a stake call that verified the pool itself has handed a deposit to the
\* wallet although the LP token on chain is not the configured one and the
\* pool has no allocation points
C22_Witness ==
    /\ hist.op = "stake"
    /\ ~hist.start.poolVerified
    /\ hist.lastTx.fn = "deposit"
    /\ hook.poolSeen.lpToken = "other"
    /\ hook.poolSeen.allocPoint = 0

\* C23 - Balance gate of staking: the amount in wei of a deposit that a
\* stake call hands to the wallet is not greater than the LP balance the hook
\* held when stake was called, for every balance that has been read, 0
\* included; a stake call asking for more has returned 'Insufficient LP
\* balance' before any submission.
C23_BalanceGate ==
    (hist.op = "stake" /\ hist.start.lpBalance # NoBig) =>
        /\ hist.lastTx.fn = "deposit" =>
               ~BigLess(hist.start.lpBalance, hist.lastTx.amountWei)
        /\ hist.result.error = MsgInsufficient =>
               /\ hist.sent = 0
               /\ BigLess(hist.start.lpBalance, Units(hist.start.amount))

\* C24 - Busy flags are always released: whenever no stake, unstake,
\* approve, harvest or emergencyWithdraw call is executing, isProcessing and
\* isApproving are false, whichever way the last call ended (returned or
\* thrown).
C24_BusyFlagsReleased ==
    call.pc = "idle" => (~hook.isProcessing /\ ~hook.isApproving)

\* C25 - One submission sequence at a time: of the stake, unstake and
\* approve calls started from one StakeModal at most one is in progress at
\* any moment, the time a stake call spends verifying the pool before it sets
\* its busy flag included.
C25_OneCallAtATime == Len(modal.calls) <= 1

\* C26 - Reserves belong to the selected pair: whenever usePoolRatio
\* reports loading = false and poolExists = true, the two selected tokens
\* have different lookup addresses, the pair record held is the one of these
\* two addresses and isTokenAFirst tells whether tokenA's address is the
\* smaller one.
C26_ReservesOfSelectedPair ==
    (pool.tokenA # None /\ ~pool.loading /\ poolExists(pool)) =>
        LET addressA == LookupAddress(pool.tokenA)
            addressB == LookupAddress(pool.tokenB)
            sorted   == SortedPair(addressA, addressB)
        IN  /\ addressA # addressB
            /\ pool.reserves.token0 = sorted[1]
            /\ pool.reserves.token1 = sorted[2]
            /\ pool.isTokenAFirst = (addressA = sorted[1])

\* C27 - Completion only after the add is confirmed: onSuccess and onClose
\* of AddLiquidityModal have been called only if an addLiquidity transaction
\* of the modal has been confirmed, and no delayed reset of an approval has
\* reset the modal while an addLiquidity submission was under way.
C27_CompletionAfterAdd ==
    /\ adding.completed => adding.addConfirmed
    /\ ~adding.addReset

====
